---------------------------- MODULE Spec2Model ----------------------------
(***************************************************************************)
(* A model of the Randezvous machine-code hardening passes for ARM:        *)
(*   GDLR      - global data layout randomization with garbage objects     *)
(*   CDLA      - control data leakage analysis                             *)
(*   ICallLimiter - indirect call register limiter                         *)
(*   LGPromote - local-to-global promotion                                 *)
(* Every pass is a run of its own; a specification per pass is given at    *)
(* the end of the section that models it.                                  *)
(***************************************************************************)
EXTENDS Integers, Sequences, FiniteSets, TLC

VARIABLES
  \* ---- GDLR ----
  pc,                 \* position of ARMRandezvousGDLR::runOnModule
  cfg,                \* the Randezvous options read by GDLR
  GV,                 \* the GlobalVariable objects of the Module, by id
  GlobalList,         \* M.getGlobalList(): ids in list order
  RodataGVs, DataGVs, BssGVs,   \* the three classification vectors
  Shares,             \* SharesForRodata / SharesForData / SharesForBss
  NumBytes,           \* statistics NumBytesInRodata / InData / InBss
  TrapBlocks, TrapBlocksUnetched, TrapBlocksEtched,
  TrapOperand,        \* operand 0 of each trap block's t2UDF_ga
  GarbageObjects, GarbageObjectsEligibleForGlobalGuard,
  call,               \* which insertGarbageObjects call is running
  RemainingSize,      \* RemainingSize of the running call
  InitArray,          \* InitArray of the garbage object under construction
  guard,              \* the global guard function, once created
  llvmUsed,           \* @llvm.used
  changed,            \* return value of runOnModule ("none" while running)
  rngPos,             \* how many outputs of RNG this run has consumed
  prevRun,            \* outcome of an earlier run on the same input, if any
  \* ---- CDLA ----
  Funcs,              \* the Functions of the Module, with MachineFunctions
  Xformed,            \* constructor argument of the pass
  cdlaPC,             \* position of ARMRandezvousCDLA::runOnModule
  curF, curB,         \* Function and MachineBasicBlock the loops are at
  LeakableMBBs,       \* set of blocks, each << function, block >>
  counters,           \* local counters of runOnModule, CodeSize and on
  Statistics,         \* the Original* and Xformed* STATISTIC counters
  ret,                \* what a function applied on its own returned
  \* ---- ICallLimiter ----
  EnableRandezvousICallLimiter,
  MF,                 \* the MachineFunction: blocks of instructions
  MFin,               \* the MachineFunction as it was handed to the pass
  VRegClass,          \* MachineRegisterInfo: class of each virtual register
  icallPC,            \* position of runOnMachineFunction
  icallAt,            \* << block, instruction >> the loops are at
  icallChanged,       \* local variable changed
  NumICallsLimited,   \* STATISTIC NumICallsLimited
  \* ---- LGPromote ----
  EnableRandezvousLGPromote,
  Fns,                \* the Functions of the Module: allocas, uses, calls
  FnsIn,              \* the Functions as they were handed to the pass
  NewGlobals,         \* the GlobalVariables the pass has created
  SCCsLeft,           \* SCCs the scc_iterator has yet to deliver
  lgpPC,              \* position of runOnModule
  lgpChanged          \* local variable changed

gdlrVars == << pc, cfg, GV, GlobalList, RodataGVs, DataGVs, BssGVs, Shares,
               NumBytes, TrapBlocks, TrapBlocksUnetched, TrapBlocksEtched,
               TrapOperand, GarbageObjects,
               GarbageObjectsEligibleForGlobalGuard, call, RemainingSize,
               InitArray, guard, llvmUsed, changed, rngPos, prevRun >>

cdlaVars == << Funcs, Xformed, cdlaPC, curF, curB, LeakableMBBs, counters,
               Statistics, ret >>

icallVars == << EnableRandezvousICallLimiter, MF, MFin, VRegClass, icallPC,
                icallAt, icallChanged, NumICallsLimited >>

lgpVars == << EnableRandezvousLGPromote, Fns, FnsIn, NewGlobals, SCCsLeft,
              lgpPC, lgpChanged >>

\* What a run of each pass leaves alone
otherThanGDLR == << cdlaVars, icallVars, lgpVars >>
otherThanCDLA == << gdlrVars, icallVars, lgpVars >>
otherThanICall == << gdlrVars, cdlaVars, lgpVars >>
otherThanLGP == << gdlrVars, cdlaVars, icallVars >>

vars == << gdlrVars, cdlaVars, icallVars, lgpVars >>

\* Every pass is a run of its own: while one pass runs, the state of the
\* others is the state of a pass that has not been given anything.
GDLRIdle ==
  /\ pc = "idle" /\ cfg = << >> /\ GV = << >> /\ GlobalList = << >>
  /\ RodataGVs = << >> /\ DataGVs = << >> /\ BssGVs = << >>
  /\ Shares = << >> /\ NumBytes = << >>
  /\ TrapBlocks = << >> /\ TrapBlocksUnetched = << >>
  /\ TrapBlocksEtched = << >> /\ TrapOperand = << >>
  /\ GarbageObjects = << >> /\ GarbageObjectsEligibleForGlobalGuard = << >>
  /\ call = 0 /\ RemainingSize = 0 /\ InitArray = << >>
  /\ guard = << >> /\ llvmUsed = << >> /\ changed = "none"
  /\ rngPos = 0 /\ prevRun = << >>

CDLAIdle ==
  /\ Funcs = << >> /\ Xformed = FALSE /\ cdlaPC = "idle"
  /\ curF = 0 /\ curB = 0 /\ LeakableMBBs = {}
  /\ counters = << >> /\ Statistics = << >> /\ ret = << >>

ICallIdle ==
  /\ EnableRandezvousICallLimiter = FALSE /\ MF = << >> /\ MFin = << >>
  /\ VRegClass = << >> /\ icallPC = "idle" /\ icallAt = << 0, 0 >>
  /\ icallChanged = FALSE /\ NumICallsLimited = 0

LGPIdle ==
  /\ EnableRandezvousLGPromote = FALSE /\ Fns = << >> /\ FnsIn = << >>
  /\ NewGlobals = << >> /\ SCCsLeft = {} /\ lgpPC = "idle"
  /\ lgpChanged = FALSE

-----------------------------------------------------------------------------
(* Bounds of the model *)

MaxGlobals == 2      \* global variables in the input Module
MaxTraps == 1        \* trap blocks left by the code layout randomizer
MaxCandidates == 2   \* largest RandezvousNumGlobalGuardCandidates tried

(* Program constants *)

PtrSize == 4         \* DataLayout::getPointerSize() on ARM
GarbageBlock == 32   \* size and alignment of a full garbage object

\* Values the random number generator may return.  The generator is 64 bits
\* wide in the program; the model keeps a few residues that exercise every
\* index of the moduli used below.
RandVals == {0, 1, 2}

\* (*RNG)() & 0xffffffff, at the model's reduced width
WeightModulus == 4

\* uint64_t arithmetic wraps around at 2^64, which is 2^32 times the weight
\* modulus; at the model's scale the word is 64 times the weight modulus.
WordModulus == 256
MaskWeight(r) == r % WeightModulus

\* (*RNG)() | 0x1
SetThumbBit(r) == IF r % 2 = 0 THEN r + 1 ELSE r

Classes == <<"rodata", "data", "bss">>

-----------------------------------------------------------------------------
(* Sequence helpers *)

Range(s) == { s[i] : i \in DOMAIN s }

RECURSIVE SumSeq(_)
SumSeq(s) == IF s = << >> THEN 0 ELSE Head(s) + SumSeq(Tail(s))

Swap(s, i, j) == [s EXCEPT ![i] = s[j], ![j] = s[i]]

IsInjective(s) == \A i, j \in DOMAIN s : s[i] = s[j] => i = j

-----------------------------------------------------------------------------
(***************************************************************************)
(* GDLR: the input Module                                                  *)
(***************************************************************************)

\* A GlobalVariable as GDLR reads it.  init is "none" (a declaration),
\* "zero" (isZeroValue) or "nonzero"; fill and content describe the
\* initializer of a garbage object and anchor the global it was put before.
RealGV(const, init, section, size) ==
  [isConstant |-> const, init |-> init, section |-> section, size |-> size,
   align |-> PtrSize, garbage |-> FALSE, fill |-> "real", content |-> << >>,
   anchor |-> 0]

\* The shapes of global the input Module is built from.
GVKinds ==
  { RealGV(TRUE,  "nonzero", "",         4),    \* constant data
    RealGV(TRUE,  "zero",    ".rodata",  4),    \* constant, all zero
    RealGV(FALSE, "nonzero", "",         4),    \* initialised variable
    RealGV(FALSE, "zero",    "",         4),    \* zero-initialised variable
    RealGV(FALSE, "nonzero", ".mydata",  4),    \* explicit foreign section
    RealGV(FALSE, "none",    "",         4) }   \* external declaration

StartsWith(section, prefix) ==
  \/ section = prefix
  \/ prefix = ".data" /\ section = ".data.rel"

\* The category runOnModule puts a global in, or "none" when it ignores it.
ClassOf(g) ==
  IF g.isConstant
    THEN IF g.section = "" \/ StartsWith(g.section, ".rodata")
           THEN "rodata" ELSE "none"
    ELSE IF g.init # "none"
      THEN IF g.init = "zero"
             THEN IF g.section = "" \/ StartsWith(g.section, ".bss")
                    THEN "bss" ELSE "none"
             ELSE IF g.section = "" \/ StartsWith(g.section, ".data")
                    THEN "data" ELSE "none"
      ELSE "none"

\* The globals of the input Module, and those GDLR created
RealIds == { id \in DOMAIN GV : ~GV[id].garbage }
GarbageIds == { id \in DOMAIN GV : GV[id].garbage }

\* A faulty variant of TotalSize: the globals are counted, not measured
TotalSize_count(ids) == Len(ids)

\* DL.getTypeAllocSize summed over a vector of globals
TotalSize(ids) == SumSeq([i \in DOMAIN ids |-> GV[ids[i]].size])

ClassVector(c) ==
  SelectSeq(GlobalList, LAMBDA id : ClassOf(GV[id]) = c)

-----------------------------------------------------------------------------
(***************************************************************************)
(* GDLR: the random number generator                                       *)
(***************************************************************************)

\* The output stream of the generator M.createRNG makes for seed s, at the
\* model's scale: a fixed function of the seed and the position.
SeededOutput(s, p) == (((7 * s + 5) * (p * p + 3 * p + s)) \div 4) % 3

\* The seeds whose stream the model spells out; the stream of any other
\* seed is left unconstrained.
KnownSeeds == {1, 2, 4}

\* RNG = M.createRNG(pass name + "-" + RandezvousGDLRSeed): what the p-th
\* call of (*RNG)() can return.
createRNG(seed, p) ==
  IF seed \in KnownSeeds THEN { SeededOutput(seed, p) } ELSE RandVals

\* The next k outputs of RNG
Draws(k) ==
  { d \in [1..k -> RandVals] :
      \A i \in 1..k : d[i] \in createRNG(cfg.Seed, rngPos + i) }

\* llvm::shuffle(first, last, g): swap each position with a later one chosen
\* by g() % (remaining size).  d holds the outputs of g, in order.
RECURSIVE ShuffleFrom(_, _, _)
ShuffleFrom(s, first, d) ==
  LET size == Len(s) - first + 1
  IN IF size <= 1 THEN s
     ELSE ShuffleFrom(Swap(s, first, first + (Head(d) % size)),
                      first + 1, Tail(d))

shuffle(s, d) == ShuffleFrom(s, 1, d)

ShuffleDraws(s) == IF Len(s) > 1 THEN Len(s) - 1 ELSE 0

-----------------------------------------------------------------------------
(***************************************************************************)
(* GDLR: runOnModule                                                       *)
(***************************************************************************)

\* Capacities tried for RandezvousMax{Rodata,Data,Bss}Size, in bytes:
\* small ones, with room for a few pointers in at most one category, under
\* an unconstrained seed, and capacities with room for full garbage objects
\* under the known seeds.
SmallCaps ==
  { [rodata |-> 4, data |-> 4, bss |-> 4],
    [rodata |-> 16, data |-> 4, bss |-> 4],
    [rodata |-> 4, data |-> 16, bss |-> 4],
    [rodata |-> 4, data |-> 4, bss |-> 16] }
BlockCaps ==
  { [rodata |-> 40, data |-> 72, bss |-> 40],
    [rodata |-> 12, data |-> 40, bss |-> 4] }

\* Asserts tells whether the compiler was built with assertions (without
\* NDEBUG); in a build without them an assert() is no code at all.
\* What the host the compiler runs on does on an unsigned division by zero:
\* it traps, or the division yields zero.
DivByZeroOutcomes == {"trap", "zero"}

ConfigRecords ==
  [EnableGDLR : BOOLEAN, EnableGRBG : BOOLEAN, EnableGlobalGuard : BOOLEAN,
   MaxSize : SmallCaps \cup BlockCaps,
   NumGlobalGuardCandidates : 0..MaxCandidates,
   RNGAddress : {0, 1},
   Seed : KnownSeeds \cup {9},
   DivByZero : DivByZeroOutcomes,
   Asserts : BOOLEAN]

\* options nothing reads are left at their defaults
DefaultsWhereUnread(c) ==
  /\ ~c.EnableGDLR =>
       /\ ~c.EnableGRBG /\ ~c.EnableGlobalGuard
       /\ c.MaxSize.rodata = c.MaxSize.data /\ c.MaxSize.data = c.MaxSize.bss
       /\ c.Seed \notin KnownSeeds
  /\ ~c.EnableGlobalGuard =>
       c.NumGlobalGuardCandidates = 1 /\ c.RNGAddress = 0

InputConfigs ==
  { c \in ConfigRecords :
      /\ DefaultsWhereUnread(c)
      /\ c.Seed \in KnownSeeds <=> c.MaxSize \in BlockCaps
      \* without a full garbage object the guard has one candidate, whatever
      \* the two options say
      /\ c.MaxSize \in SmallCaps =>
           c.NumGlobalGuardCandidates = 1 /\ c.RNGAddress = 0
      \* a build without assertions is tried under the known seeds
      /\ ~c.Asserts => c.EnableGDLR /\ c.MaxSize \in BlockCaps }

\* Some category of a Module with globals of kinds k is over its capacity
OverCapacity(c, k) ==
  \E cl \in {"rodata", "data", "bss"} :
    SumSeq([i \in DOMAIN k |-> IF ClassOf(k[i]) = cl THEN k[i].size ELSE 0])
      > c.MaxSize[cl]

\* The pass as constructed (or after releaseMemory), facing a Module with n
\* globals of kinds k and t trap blocks.
GDLRStart(c, n, k, t) ==
  /\ pc = "start"
  /\ cfg = c
  /\ GV = [i \in 1..n |-> k[i]]
  /\ GlobalList = [i \in 1..n |-> i]
  /\ RodataGVs = << >> /\ DataGVs = << >> /\ BssGVs = << >>
  /\ Shares = [rodata |-> << >>, data |-> << >>, bss |-> << >>]
  /\ NumBytes = [rodata |-> 0, data |-> 0, bss |-> 0]
  /\ TrapBlocks = << >>
  /\ TrapBlocksUnetched = << >>
  /\ TrapBlocksEtched = << >>
  /\ TrapOperand = [b \in 1..t |-> 0]
  /\ GarbageObjects = << >>
  /\ GarbageObjectsEligibleForGlobalGuard = << >>
  /\ call = 1
  /\ RemainingSize = 0
  /\ InitArray = << >>
  /\ guard = [created |-> FALSE, mode |-> "none", candidates |-> << >>,
              selected |-> 0]
  /\ llvmUsed = [globals |-> {}, functions |-> {}]
  /\ changed = "none"
  /\ rngPos = 0
  /\ prevRun = << >>

InitGDLR ==
  /\ CDLAIdle /\ ICallIdle /\ LGPIdle
  /\ \E c \in InputConfigs, n \in 0..MaxGlobals, t \in 0..MaxTraps :
       \E k \in [1..n -> GVKinds] :
         \* only the asserts of lines 505-507 differ between the two builds,
         \* and they pass unless a category is over its capacity
         /\ ~c.Asserts => OverCapacity(c, k)
         /\ GDLRStart(c, n, k, t)

\* A faulty variant of NewRNG: a generator left by an earlier run is kept
NewRNG_kept(pos) == pos

\* Line 440: RNG = M.createRNG(...) starts the stream afresh
NewRNG(pos) == 0

\* Lines 437-507: create the generator, find the trap blocks, classify the
\* globals, measure the three categories, and stop here when the pass is
\* disabled or, in a build with assertions, a category is over its limit.
ClassifyGlobals ==
  /\ UNCHANGED otherThanGDLR
  /\ pc = "start"
  /\ rngPos' = NewRNG(rngPos)
  /\ LET traps == [i \in 1..Len(TrapOperand) |-> i]
         ro == ClassVector("rodata")
         da == ClassVector("data")
         bs == ClassVector("bss")
         tot == [rodata |-> TotalSize(ro), data |-> TotalSize(da),
                 bss |-> TotalSize(bs)]
     IN /\ TrapBlocks' = TrapBlocks \o traps
        /\ TrapBlocksUnetched' = TrapBlocksUnetched \o traps
        /\ RodataGVs' = ro /\ DataGVs' = da /\ BssGVs' = bs
        /\ NumBytes' = tot
        /\ IF ~cfg.EnableGDLR
             THEN pc' = "done" /\ changed' = "false"
             ELSE /\ changed' = changed
                  /\ pc' = IF \/ ~cfg.Asserts
                              \/ /\ tot.rodata <= cfg.MaxSize.rodata
                                 /\ tot.data <= cfg.MaxSize.data
                                 /\ tot.bss <= cfg.MaxSize.bss
                             THEN "shuffle" ELSE "abort"
  /\ UNCHANGED << cfg, GV, GlobalList, Shares, TrapBlocksEtched, TrapOperand,
                  GarbageObjects, GarbageObjectsEligibleForGlobalGuard, call,
                  RemainingSize, InitArray, guard, llvmUsed, prevRun >>

\* A faulty variant of Reinsert: the zero-initialised globals are removed and never
\* pushed back
Reinsert_dropBss(list, ro, da, bs) ==
  LET moved == Range(ro) \cup Range(da) \cup Range(bs)
  IN SelectSeq(list, LAMBDA id : id \notin moved) \o ro \o da

\* GlobalList.remove(GV) for every classified global, then push_back in the
\* order of the three (shuffled) vectors.
Reinsert(list, ro, da, bs) ==
  LET moved == Range(ro) \cup Range(da) \cup Range(bs)
  IN SelectSeq(list, LAMBDA id : id \notin moved) \o ro \o da \o bs

\* Lines 509-531
ShuffleGlobals ==
  /\ UNCHANGED otherThanGDLR
  /\ pc = "shuffle"
  /\ LET k1 == ShuffleDraws(RodataGVs)
         k2 == ShuffleDraws(DataGVs)
         k3 == ShuffleDraws(BssGVs)
     IN \E d \in Draws(k1 + k2 + k3) :
          LET ro == shuffle(RodataGVs, SubSeq(d, 1, k1))
              da == shuffle(DataGVs, SubSeq(d, k1 + 1, k1 + k2))
              bs == shuffle(BssGVs, SubSeq(d, k1 + k2 + 1, k1 + k2 + k3))
          IN /\ RodataGVs' = ro /\ DataGVs' = da /\ BssGVs' = bs
             /\ GlobalList' = Reinsert(GlobalList, ro, da, bs)
             /\ rngPos' = rngPos + k1 + k2 + k3
  /\ pc' = "shares"
  /\ UNCHANGED << cfg, GV, Shares, NumBytes, TrapBlocks, TrapBlocksUnetched,
                  TrapBlocksEtched, TrapOperand, GarbageObjects,
                  GarbageObjectsEligibleForGlobalGuard, call, RemainingSize,
                  InitArray, guard, llvmUsed, changed, prevRun >>

\* (Max - Total) / PtrSize for category c
NumGrbg(c) == ((cfg.MaxSize[c] - NumBytes[c]) % WordModulus) \div PtrSize

\* SharesFor*[i] = SharesFor*[i] * NumGrbg / SumSharesFor*
ShareOf(w, n, sum) == ((w * n) % WordModulus) \div sum

SharesFor(c, w) ==
  LET sum == SumSeq(w)
  IN [i \in DOMAIN w |->
        IF sum = 0 THEN 0 ELSE ShareOf(w[i], NumGrbg(c), sum)]

\* Lines 533-564
ComputeShares ==
  /\ UNCHANGED otherThanGDLR
  /\ pc = "shares"
  /\ LET k1 == Len(RodataGVs)
         k2 == Len(DataGVs)
         k3 == Len(BssGVs)
     IN \E d \in Draws(k1 + k2 + k3) :
          LET w == [i \in 1..(k1 + k2 + k3) |-> MaskWeight(d[i])]
              w1 == SubSeq(w, 1, k1)
              w2 == SubSeq(w, k1 + 1, k1 + k2)
              w3 == SubSeq(w, k1 + k2 + 1, k1 + k2 + k3)
              zerodiv == \/ k1 > 0 /\ SumSeq(w1) = 0
                         \/ k2 > 0 /\ SumSeq(w2) = 0
                         \/ k3 > 0 /\ SumSeq(w3) = 0
          IN /\ rngPos' = rngPos + k1 + k2 + k3
             /\ IF zerodiv /\ cfg.DivByZero = "trap"
                  \* the division stops the compiler, the three vectors
                  \* holding the weights
                  THEN /\ pc' = "crash"
                       /\ Shares' = [rodata |-> w1, data |-> w2, bss |-> w3]
                  ELSE /\ pc' = "insert"
                       /\ Shares' = [rodata |-> SharesFor("rodata", w1),
                                     data |-> SharesFor("data", w2),
                                     bss |-> SharesFor("bss", w3)]
  /\ call' = 1
  /\ UNCHANGED << cfg, GV, GlobalList, RodataGVs, DataGVs, BssGVs, NumBytes,
                  TrapBlocks, TrapBlocksUnetched, TrapBlocksEtched,
                  TrapOperand, GarbageObjects,
                  GarbageObjectsEligibleForGlobalGuard, RemainingSize,
                  InitArray, guard, llvmUsed, changed, prevRun >>

\* The insertGarbageObjects calls of lines 566-575, in order
Anchors == RodataGVs \o DataGVs \o BssGVs
AllShares == Shares.rodata \o Shares.data \o Shares.bss

AfterInsertion == IF cfg.EnableGlobalGuard THEN "guard" ELSE "used"

\* Lines 323-343: one call of insertGarbageObjects starts (or, after the
\* last one, runOnModule moves on).
InsertGarbageObjects ==
  /\ UNCHANGED otherThanGDLR
  /\ pc = "insert"
  /\ IF call > Len(Anchors)
       THEN /\ pc' = AfterInsertion
            /\ UNCHANGED << call, RemainingSize >>
       ELSE /\ RemainingSize' = AllShares[call] * PtrSize
            /\ IF RemainingSize' > 0
                 THEN pc' = "loop" /\ call' = call
                 ELSE pc' = "insert" /\ call' = call + 1
  /\ UNCHANGED << cfg, GV, GlobalList, RodataGVs, DataGVs, BssGVs, Shares,
                  NumBytes, TrapBlocks, TrapBlocksUnetched, TrapBlocksEtched,
                  TrapOperand, GarbageObjects,
                  GarbageObjectsEligibleForGlobalGuard, InitArray, guard,
                  llvmUsed, changed, rngPos, prevRun >>

\* A faulty variant of ObjectSize: the whole share goes into one object
ObjectSize_whole == RemainingSize

\* Lines 345-347
ObjectSize == IF RemainingSize < GarbageBlock THEN RemainingSize ELSE GarbageBlock
ObjectAlign == IF RemainingSize < GarbageBlock THEN PtrSize ELSE GarbageBlock

\* A faulty variant of FillFor: trap block addresses are used only while unetched
\* trap blocks remain
FillFor_unetched(g) ==
  IF g.init = "zero" THEN "zero"
  ELSE IF cfg.EnableGRBG /\ TrapBlocksUnetched # << >> THEN "trap"
  ELSE "random"

\* Lines 351-373: which initializer the garbage object before anchor g gets
FillFor(g) ==
  IF g.init = "zero" THEN "zero"
  ELSE IF cfg.EnableGRBG /\ TrapBlocks # << >> THEN "trap"
  ELSE "random"

\* Lines 357-361 and 367-371: one element is pushed onto InitArray
PushInitializerElement ==
  /\ UNCHANGED otherThanGDLR
  /\ pc = "loop"
  /\ FillFor(GV[Anchors[call]]) # "zero"
  /\ Len(InitArray) < ObjectSize \div PtrSize
  /\ \E d \in Draws(1) :
       InitArray' = Append(InitArray,
                      IF FillFor(GV[Anchors[call]]) = "trap"
                        THEN TrapBlocks[(d[1] % Len(TrapBlocks)) + 1]
                        ELSE SetThumbBit(d[1]))
  /\ rngPos' = rngPos + 1
  /\ UNCHANGED << pc, cfg, GV, GlobalList, RodataGVs, DataGVs, BssGVs, Shares,
                  NumBytes, TrapBlocks, TrapBlocksUnetched, TrapBlocksEtched,
                  TrapOperand, GarbageObjects,
                  GarbageObjectsEligibleForGlobalGuard, call, RemainingSize,
                  guard, llvmUsed, changed, prevRun >>

\* A faulty variant of InsertBefore: the new global goes to the front
InsertBefore_front(list, id, anchor) == << id >> \o list

\* new GlobalVariable(..., &GV): the list with id put right before anchor
InsertBefore(list, id, anchor) ==
  LET p == CHOOSE i \in DOMAIN list : list[i] = anchor
  IN SubSeq(list, 1, p - 1) \o << id >> \o SubSeq(list, p, Len(list))

\* Lines 376-380: the garbage object made for anchor a
GarbageObjectFor(a) ==
  [isConstant |-> GV[a].isConstant,
   init |-> IF FillFor(GV[a]) = "zero" THEN "zero" ELSE "nonzero",
   section |-> "", size |-> ObjectSize, align |-> ObjectAlign,
   garbage |-> TRUE, fill |-> FillFor(GV[a]), content |-> InitArray,
   anchor |-> a]

\* Lines 392-393
EligibleForGlobalGuard(o) ==
  /\ cfg.EnableGlobalGuard
  /\ ~o.isConstant
  /\ o.size = GarbageBlock
  /\ o.init # "zero"

\* A faulty variant of CanEtch: only objects that hold trap block addresses
\* are etched
CanEtch_trapFilled ==
  TrapBlocksUnetched # << >> /\ FillFor(GV[Anchors[call]]) = "trap"

\* Line 399: is there a trap block left to etch
CanEtch == TrapBlocksUnetched # << >>

\* A faulty variant of pop_back: the etched block stays in the pool
pop_back_kept(v) == v

\* Line 405: TrapBlocksUnetched.pop_back()
pop_back(v) == SubSeq(v, 1, Len(v) - 1)

\* Lines 375-413: the garbage object is created, recorded and etched
CreateGarbageObject ==
  /\ UNCHANGED otherThanGDLR
  /\ pc = "loop"
  /\ \/ FillFor(GV[Anchors[call]]) = "zero"
     \/ Len(InitArray) = ObjectSize \div PtrSize
  /\ LET a == Anchors[call]
         id == Len(GV) + 1
         obj == GarbageObjectFor(a)
     IN /\ GV' = Append(GV, obj)
        /\ GlobalList' = InsertBefore(GlobalList, id, a)
        /\ GarbageObjects' = Append(GarbageObjects, id)
        /\ GarbageObjectsEligibleForGlobalGuard' =
             IF EligibleForGlobalGuard(obj)
               THEN Append(GarbageObjectsEligibleForGlobalGuard, id)
               ELSE GarbageObjectsEligibleForGlobalGuard
        /\ IF CanEtch
             THEN LET TrapBlock == TrapBlocksUnetched[Len(TrapBlocksUnetched)]
                  IN /\ TrapBlocksUnetched' = pop_back(TrapBlocksUnetched)
                     /\ TrapOperand' = [TrapOperand EXCEPT ![TrapBlock] = id]
                     /\ TrapBlocksEtched' = Append(TrapBlocksEtched, TrapBlock)
             ELSE UNCHANGED << TrapBlocksUnetched, TrapOperand,
                               TrapBlocksEtched >>
        /\ RemainingSize' = RemainingSize - ObjectSize
        /\ InitArray' = << >>
        /\ IF RemainingSize' > 0
             THEN pc' = "loop" /\ call' = call
             ELSE pc' = "insert" /\ call' = call + 1
  /\ UNCHANGED << cfg, RodataGVs, DataGVs, BssGVs, Shares, NumBytes,
                  TrapBlocks, guard, llvmUsed, changed, rngPos, prevRun >>

\* Lines 120-127: the garbage object createGlobalGuardFunction makes itself
ManualGuardObject ==
  [isConstant |-> FALSE, init |-> "zero", section |-> "",
   size |-> (GarbageBlock \div PtrSize) * PtrSize, align |-> GarbageBlock,
   garbage |-> TRUE, fill |-> "zero", content |-> << >>, anchor |-> 0]

\* Lines 112-128: the list of global guard candidates, given the RNG
\* outputs d drawn for it
GlobalGuardCandidates(d) ==
  IF GarbageObjectsEligibleForGlobalGuard # << >>
    THEN [i \in 1..cfg.NumGlobalGuardCandidates |->
            GarbageObjectsEligibleForGlobalGuard[
              (d[i] % Len(GarbageObjectsEligibleForGlobalGuard)) + 1]]
    ELSE << Len(GV) + 1 >>

\* Line 148: is the run-time selection emitted
SelectsAtRunTime(cands) == cfg.RNGAddress # 0 /\ Len(cands) > 1

\* Lines 80-308
createGlobalGuardFunction ==
  /\ UNCHANGED otherThanGDLR
  /\ pc = "guard"
  /\ LET manual == GarbageObjectsEligibleForGlobalGuard = << >>
         k == IF manual THEN 0 ELSE cfg.NumGlobalGuardCandidates
     IN \E d \in Draws(k + 1) :
          LET cands == GlobalGuardCandidates(d)
              runtime == SelectsAtRunTime(cands)
          IN /\ GV' = IF manual THEN Append(GV, ManualGuardObject) ELSE GV
             /\ GlobalList' = IF manual THEN Append(GlobalList, Len(GV) + 1)
                              ELSE GlobalList
             /\ rngPos' = rngPos + k + (IF runtime THEN 0 ELSE 1)
             /\ IF runtime
                  THEN /\ guard' = [created |-> TRUE, mode |-> "runtime",
                                    candidates |-> cands, selected |-> 0]
                       /\ pc' = "used"
                       /\ llvmUsed' = [llvmUsed EXCEPT !.functions =
                                         @ \cup {"__randezvous_globalguard_getaddr"}]
                  ELSE IF cands = << >>
                    \* (*RNG)() % 0: the host traps, or the index is the
                    \* raw output and the read is past the end of the vector
                    THEN /\ pc' = "crash"
                         /\ guard' = [created |-> TRUE, mode |-> "static",
                                      candidates |-> cands, selected |-> 0]
                         /\ llvmUsed' = llvmUsed
                    ELSE /\ guard' = [created |-> TRUE, mode |-> "static",
                                      candidates |-> cands,
                                      selected |->
                                        cands[(d[k + 1] % Len(cands)) + 1]]
                         /\ pc' = "used"
                         /\ llvmUsed' = [llvmUsed EXCEPT !.functions =
                                           @ \cup {"__randezvous_globalguard_getaddr"}]
  /\ UNCHANGED << cfg, RodataGVs, DataGVs, BssGVs, Shares, NumBytes,
                  TrapBlocks, TrapBlocksUnetched, TrapBlocksEtched,
                  TrapOperand, GarbageObjects,
                  GarbageObjectsEligibleForGlobalGuard, call, RemainingSize,
                  InitArray, changed, prevRun >>

\* Lines 582-585: appendToUsed(M, GarbageObjects); return true
AppendToUsed ==
  /\ UNCHANGED otherThanGDLR
  /\ pc = "used"
  /\ llvmUsed' = [llvmUsed EXCEPT !.globals = @ \cup Range(GarbageObjects)]
  /\ changed' = "true"
  /\ pc' = "done"
  /\ UNCHANGED << cfg, GV, GlobalList, RodataGVs, DataGVs, BssGVs, Shares,
                  NumBytes, TrapBlocks, TrapBlocksUnetched, TrapBlocksEtched,
                  TrapOperand, GarbageObjects,
                  GarbageObjectsEligibleForGlobalGuard, call, RemainingSize,
                  InitArray, guard, rngPos, prevRun >>

NextGDLR ==
  \/ ClassifyGlobals
  \/ ShuffleGlobals
  \/ ComputeShares
  \/ InsertGarbageObjects
  \/ PushInitializerElement
  \/ CreateGarbageObject
  \/ createGlobalGuardFunction
  \/ AppendToUsed

Init == InitGDLR
Next == NextGDLR
Spec == Init /\ [][Next]_vars

\* What a run leaves behind
Outcome ==
  [pc |-> pc, changed |-> changed, GlobalList |-> GlobalList, GV |-> GV,
   Shares |-> Shares, TrapOperand |-> TrapOperand, guard |-> guard,
   llvmUsed |-> llvmUsed]

Finished == pc \in {"done", "abort", "crash"}

\* The pass is run once more, in the same process, on an identical copy of
\* the input Module with the same options: releaseMemory has emptied the
\* pass's vectors, the RNG member is whatever the first run left.
Rerun ==
  /\ UNCHANGED otherThanGDLR
  /\ Finished
  /\ prevRun = << >>
  /\ prevRun' = << Outcome >>
  /\ pc' = "start"
  /\ GV' = SubSeq(GV, 1, Cardinality(RealIds))
  /\ GlobalList' = [i \in 1..Cardinality(RealIds) |-> i]
  /\ RodataGVs' = << >> /\ DataGVs' = << >> /\ BssGVs' = << >>
  /\ Shares' = [rodata |-> << >>, data |-> << >>, bss |-> << >>]
  /\ NumBytes' = [rodata |-> 0, data |-> 0, bss |-> 0]
  /\ TrapBlocks' = << >>
  /\ TrapBlocksUnetched' = << >>
  /\ TrapBlocksEtched' = << >>
  /\ TrapOperand' = [b \in DOMAIN TrapOperand |-> 0]
  /\ GarbageObjects' = << >>
  /\ GarbageObjectsEligibleForGlobalGuard' = << >>
  /\ call' = 1
  /\ RemainingSize' = 0
  /\ InitArray' = << >>
  /\ guard' = [created |-> FALSE, mode |-> "none", candidates |-> << >>,
               selected |-> 0]
  /\ llvmUsed' = [globals |-> {}, functions |-> {}]
  /\ changed' = "none"
  /\ UNCHANGED << cfg, rngPos >>

\* Two runs under a known seed
InitTwoRuns == InitGDLR /\ cfg.Seed \in KnownSeeds
NextTwoRuns == NextGDLR \/ Rerun
SpecTwoRuns == InitTwoRuns /\ [][NextTwoRuns]_vars

-----------------------------------------------------------------------------
(***************************************************************************)
(* GDLR: properties                                                        *)
(***************************************************************************)

\* Bytes the globals of category c take up in the Module
ClassFootprint(c) ==
  SumSeq([i \in DOMAIN GlobalList |->
            IF ClassOf(GV[GlobalList[i]]) = c
              THEN GV[GlobalList[i]].size ELSE 0])

\* The trap block etched with the address of garbage object id, if any
IsEtched(id) == \E b \in DOMAIN TrapOperand : TrapOperand[b] = id

\* C1: after an enabled GDLR run, in each of rodata, data and bss the real
\* objects of the category plus everything GDLR created in it (garbage
\* objects, the global guard's object included) fit the configured capacity.
C1_CapacityRespected ==
  (pc = "done" /\ changed = "true") =>
    \A c \in Range(Classes) : ClassFootprint(c) <= cfg.MaxSize[c]

\* C2: shuffling changes order only: the global list has no duplicates, each
\* category holds exactly the real objects classified into it, and the
\* objects left out of the classification keep their relative order.
C2_PurePermutation ==
  LET realList == SelectSeq(GlobalList, LAMBDA id : id \in RealIds)
      ignored == SelectSeq(GlobalList,
                   LAMBDA id : id \in RealIds /\ ClassOf(GV[id]) = "none")
  IN /\ IsInjective(GlobalList)
     /\ Range(realList) = RealIds
     /\ pc \notin {"start"} =>
          /\ Range(RodataGVs) = { id \in RealIds : ClassOf(GV[id]) = "rodata" }
          /\ Range(DataGVs) = { id \in RealIds : ClassOf(GV[id]) = "data" }
          /\ Range(BssGVs) = { id \in RealIds : ClassOf(GV[id]) = "bss" }
          /\ Len(RodataGVs) + Len(DataGVs) + Len(BssGVs) + Len(ignored)
               = Cardinality(RealIds)
     /\ \A i, j \in DOMAIN ignored : i < j => ignored[i] < ignored[j]

\* C2 witness: a finished run after which two real objects stand in the
\* list in the opposite of their original order.
C2_Witness ==
  /\ pc = "done" /\ changed = "true"
  /\ \E i, j \in DOMAIN GlobalList :
       /\ i < j /\ GlobalList[i] \in RealIds /\ GlobalList[j] \in RealIds
       /\ GlobalList[i] > GlobalList[j]

\* C3: no trap block is etched twice: the etched and the unetched pool have
\* no duplicates, share no block, together are the trap blocks found at the
\* start of the run, and the etched blocks are the ones whose operand names
\* a garbage object.
C3_EtchedOnce ==
  /\ IsInjective(TrapBlocksEtched)
  /\ IsInjective(TrapBlocksUnetched)
  /\ Range(TrapBlocksEtched) \cap Range(TrapBlocksUnetched) = {}
  /\ Range(TrapBlocksEtched) \cup Range(TrapBlocksUnetched) = Range(TrapBlocks)
  /\ pc # "start" => Range(TrapBlocks) = DOMAIN TrapOperand
  /\ \A b \in DOMAIN TrapOperand :
       TrapOperand[b] # 0 <=> b \in Range(TrapBlocksEtched)
  /\ \A b, c \in DOMAIN TrapOperand :
       (TrapOperand[b] # 0 /\ TrapOperand[b] = TrapOperand[c]) => b = c

\* C3 witness: garbage objects keep being inserted after the pool ran dry.
C3_Witness ==
  /\ TrapBlocksEtched # << >>
  /\ TrapBlocksUnetched = << >>
  /\ Len(GarbageObjects) > Len(TrapBlocks)

\* A garbage object made for an anchor that is not zero-initialised after
\* the unetched pool had become empty (it was left without a trap block)
LateNonZero(id) ==
  /\ id \in Range(GarbageObjects)
  /\ GV[GV[id].anchor].init # "zero"
  /\ ~IsEtched(id)

IsOdd(v) == v % 2 = 1

-----------------------------------------------------------------------------
(***************************************************************************)
(* GDLR: the fatal-error path and the disabled pass                        *)
(***************************************************************************)

\* The Module is as it was handed to the pass
ModuleUntouched ==
  /\ GlobalList = [i \in DOMAIN GV |-> i]
  /\ GarbageIds = {}
  /\ \A b \in DOMAIN TrapOperand : TrapOperand[b] = 0
  /\ ~guard.created
  /\ llvmUsed = [globals |-> {}, functions |-> {}]

\* The measured footprint of some category is over its capacity
Oversized ==
  \E c \in Range(Classes) : NumBytes[c] > cfg.MaxSize[c]

\* C13: when the footprint of a category exceeds its capacity, the enabled
\* pass stops at the checks of the three categories with the program as it
\* was: list order kept, no garbage object, no etched trap block, no guard
\* function.
C13_AbortsBeforeMutation ==
  (cfg.EnableGDLR /\ Oversized /\ pc # "start") =>
    (pc = "abort" /\ ModuleUntouched)

\* C14: the disabled pass returns "not changed" with the program as it was
\* (list order, globals, trap block operands, llvm.used; no garbage object
\* and no guard function), and the three statistics hold the footprints.
C14_DisabledIsNoOp ==
  (~cfg.EnableGDLR /\ pc # "start") =>
    /\ pc = "done" /\ changed = "false"
    /\ ModuleUntouched
    /\ \A c \in Range(Classes) : NumBytes[c] = ClassFootprint(c)

\* C14 witness: the disabled pass has returned from a Module that has a
\* trap block and globals of two categories.
C14_Witness ==
  /\ ~cfg.EnableGDLR /\ pc = "done"
  /\ TrapBlocks # << >>
  /\ NumBytes.data = PtrSize /\ NumBytes.bss = PtrSize

-----------------------------------------------------------------------------
(***************************************************************************)
(* GDLR: shares and the order of insertion                                 *)
(***************************************************************************)

\* floor((capacity - used) / pointer size) for category c
BudgetOf(c) == (cfg.MaxSize[c] - NumBytes[c]) \div PtrSize

\* The shares have been assigned
SharesAssigned == pc \in {"insert", "loop", "guard", "used", "done"}

\* The shares of category c are floor(w * N / sum(w)) for some weights w
\* below the weight modulus (all zero where the weights add up to zero)
ProportionalShares(c, N) ==
  \E w \in [DOMAIN Shares[c] -> 0..(WeightModulus - 1)] :
    \A i \in DOMAIN Shares[c] :
      Shares[c][i] = IF SumSeq(w) = 0 THEN 0 ELSE (w[i] * N) \div SumSeq(w)

\* C19: for each category with an object the shares are
\* floor(w_i * N / sum(w)) for weights below the weight modulus, with
\* N = floor((capacity - used) / pointer size); every share is a natural
\* number, the shares add up to at most N, and for N below word modulus /
\* weight modulus no product w_i * N reaches the word modulus.
C19_SharesProportional ==
  SharesAssigned =>
    \A c \in Range(Classes) :
      Shares[c] # << >> =>
        /\ ProportionalShares(c, BudgetOf(c))
        /\ \A i \in DOMAIN Shares[c] : Shares[c][i] \in Nat
        /\ SumSeq(Shares[c]) <= BudgetOf(c)
        /\ BudgetOf(c) < WordModulus \div WeightModulus =>
             \A w \in 0..(WeightModulus - 1) : w * BudgetOf(c) < WordModulus

\* Where a global stands in the list, and the anchor of the k-th garbage
\* object created
PosOf(id) == CHOOSE p \in DOMAIN GlobalList : GlobalList[p] = id
AnchorOf(k) == GV[GarbageObjects[k]].anchor

\* The garbage objects of an anchor stand in a row right before it
PlacedBeforeAnchor ==
  \A k \in DOMAIN GarbageObjects :
    LET p == PosOf(GarbageObjects[k])
    IN /\ p < Len(GlobalList)
       /\ \/ GlobalList[p + 1] = AnchorOf(k)
          \/ /\ GV[GlobalList[p + 1]].garbage
             /\ GV[GlobalList[p + 1]].anchor = AnchorOf(k)

\* Where an anchor stands in the order of the insertGarbageObjects calls
CallOf(a) == CHOOSE m \in DOMAIN Anchors : Anchors[m] = a

\* C20 as stated: garbage objects are created anchor by anchor in the order
\* the anchors of a category had in the input Module, and stand right
\* before their anchor.
C20_InsertsInOriginalOrder ==
  /\ \A i, j \in DOMAIN GarbageObjects :
       (i < j /\ ClassOf(GV[AnchorOf(i)]) = ClassOf(GV[AnchorOf(j)]))
         => AnchorOf(i) <= AnchorOf(j)
  /\ PlacedBeforeAnchor

\* C20: garbage objects are created anchor by anchor in the order of the
\* shuffled vectors of the three categories, which is the order the anchors
\* have in the final list, and stand right before their anchor.
C20_InsertsInShuffledOrder ==
  /\ \A k \in 1..(Len(GarbageObjects) - 1) :
       /\ CallOf(AnchorOf(k)) <= CallOf(AnchorOf(k + 1))
       /\ PosOf(AnchorOf(k)) <= PosOf(AnchorOf(k + 1))
  /\ PlacedBeforeAnchor

\* C20 witness: a finished run that created garbage objects for two
\* anchors of one category, first for the one that came later in the input
\* Module.
C20_Witness ==
  /\ pc = "done"
  /\ \E i, j \in DOMAIN GarbageObjects :
       /\ i < j
       /\ ClassOf(GV[AnchorOf(i)]) = ClassOf(GV[AnchorOf(j)])
       /\ AnchorOf(i) > AnchorOf(j)

-----------------------------------------------------------------------------
(***************************************************************************)
(* GDLR: the garbage objects of one insertGarbageObjects call              *)
(***************************************************************************)

\* 32 / PtrSize: the elements of a full garbage object
EntriesPerBlock == GarbageBlock \div PtrSize

\* The garbage objects created for anchor a, in the order of creation
DecoysOf(a) == SelectSeq(GarbageObjects, LAMBDA id : GV[id].anchor = a)

\* The m-th insertGarbageObjects call has returned
CallDone(m) == SharesAssigned /\ call > m

\* The elements of garbage object id
EntriesOf(id) == GV[id].size \div PtrSize

\* What is left to do of the running call: the bytes to hand out and the
\* elements the object under construction still lacks
LoopMeasure == RemainingSize + (ObjectSize \div PtrSize - Len(InitArray))

\* The objects one finished call insertGarbageObjects(a, N) has created:
\* N div k full ones, then the remainder if there is one, all in a row
\* right before a
BlocksThenRemainder(a, N) ==
  LET objs == DecoysOf(a)
      full == N \div EntriesPerBlock
      rem == N % EntriesPerBlock
  IN /\ Len(objs) = full + (IF rem > 0 THEN 1 ELSE 0)
     /\ \A i \in 1..full :
          GV[objs[i]].size = GarbageBlock /\ GV[objs[i]].align = GarbageBlock
     /\ rem > 0 => /\ EntriesOf(objs[full + 1]) = rem
                   /\ GV[objs[full + 1]].size = rem * PtrSize
     /\ SumSeq([i \in DOMAIN objs |-> EntriesOf(objs[i])]) = N
     /\ \A i \in DOMAIN objs :
          /\ GV[objs[i]].fill # "zero" =>
               Len(GV[objs[i]].content) = EntriesOf(objs[i])
          /\ PosOf(objs[i]) = PosOf(a) - (Len(objs) - i + 1)

\* C21: a call insertGarbageObjects(anchor, N) comes to an end (inside its
\* loop the work left is a natural number that every step makes smaller),
\* and once it has returned it has created floor(N / k) objects of 32 bytes
\* aligned at 32 and then at most one smaller object of N mod k elements,
\* k = 32 / pointer size; their elements add up to N and they sit in a row
\* immediately before the anchor, the remainder last.
C21_BlocksAndRemainder ==
  /\ [](/\ \A m \in DOMAIN Anchors :
             CallDone(m) => BlocksThenRemainder(Anchors[m], AllShares[m])
        /\ pc = "loop" =>
             /\ RemainingSize > 0
             /\ Len(InitArray) <= ObjectSize \div PtrSize
             /\ LoopMeasure \in Nat)
  /\ [][pc = "loop" =>
          \/ pc' = "loop" /\ call' = call /\ LoopMeasure' < LoopMeasure
          \/ pc' = "insert" /\ call' = call + 1 /\ RemainingSize' = 0]_vars

\* C21 witness: a call with room for more than one full object's elements
\* and a remainder has returned, its objects filled with non-zero values.
C21_Witness ==
  \E m \in DOMAIN Anchors :
    /\ CallDone(m)
    /\ AllShares[m] > EntriesPerBlock
    /\ AllShares[m] % EntriesPerBlock # 0
    /\ GV[Anchors[m]].init # "zero"
    /\ Len(DecoysOf(Anchors[m])) >= 2

-----------------------------------------------------------------------------
(***************************************************************************)
(* GDLR: what the garbage objects hold and which trap blocks carry them    *)
(***************************************************************************)

\* The garbage objects insertGarbageObjects has put before an anchor
AnchoredDecoys == { id \in GarbageIds : GV[id].anchor # 0 }

\* Garbage object id holds zeros only
ZeroFilled(id) == GV[id].init = "zero"

\* C22: a garbage object is zero-filled exactly when its anchor was put in
\* the bss category, and one whose anchor was put in the rodata or data
\* category holds non-zero elements only.
C22_ZeroFillOnlyForBss ==
  \A id \in AnchoredDecoys :
    LET c == ClassOf(GV[GV[id].anchor])
    IN /\ ZeroFilled(id) <=> c = "bss"
       /\ c \in {"rodata", "data"} =>
            /\ GV[id].content # << >>
            /\ \A i \in DOMAIN GV[id].content : GV[id].content[i] # 0


-----------------------------------------------------------------------------
(***************************************************************************)
(* GDLR: the global guard                                                  *)
(***************************************************************************)

\* What insertGarbageObjects asks of a garbage object that may serve as the
\* global guard, and the alignment a full garbage object has
FitForGuard(o) ==
  /\ o.garbage
  /\ o.size = GarbageBlock
  /\ ~o.isConstant
  /\ o.init # "zero"
  /\ o.align = GarbageBlock

\* C24: once the global guard function is created, every candidate it can
\* return is a garbage object of exactly 32 bytes that is writable, not
\* zero-initialised and aligned at 32, also when no garbage object inserted
\* before an anchor was eligible.
C24_CandidatesFitForGuard ==
  guard.created =>
    \A i \in DOMAIN guard.candidates : FitForGuard(GV[guard.candidates[i]])


\* The values the accessor may find at RandezvousRNGAddress
RNGReads == 0..5

\* t2UDIV Rd, Rn, Rm: unsigned division; a zero divisor yields zero
UDIV(rn, rm) == IF rm = 0 THEN 0 ELSE rn \div rm

\* A faulty variant of MLS: the product is added
MLS_added(rn, rm, ra) == (ra + rn * rm) % WordModulus

\* t2MLS Rd, Rn, Rm, Ra: Rd = Ra - Rn * Rm
MLS(rn, rm, ra) == (ra - rn * rm) % WordModulus

\* Lines 226-267: the chain of MBB3.  For i = 0 .. n - 2, R2 is decremented
\* and, if R3 equals it, candidate i is taken; the last candidate is taken
\* if none was.  The result is the position in GlobalGuardCandidates, from 1.
RECURSIVE ChainFrom(_, _, _, _)
ChainFrom(i, R2, R3, n) ==
  IF i > n - 2 THEN n
  ELSE LET R2dec == (R2 - 1) % WordModulus
       IN IF R3 = R2dec THEN i + 1 ELSE ChainFrom(i + 1, R2dec, R3, n)

SelectChain(n, R3) == ChainFrom(0, n, R3, n)

\* The address of global id plus off bytes, as a register holds it
AddressOf(id, off) == [global |-> id, offset |-> off]

\* Lines 148-301 at run time: what the accessor emitted for the candidates in
\* guard does when it finds r at the RNG address.  R3 is the register after
\* the MLS, at is the candidate whose address R12 holds at the first store.
RunAccessor(r) ==
  LET n == Len(guard.candidates)
      R12 == UDIV(r, n)
      R3 == IF guard.mode = "runtime" THEN MLS(n, R12, r) ELSE r
      at == IF guard.mode = "runtime"
              THEN guard.candidates[SelectChain(n, R3)]
              ELSE guard.selected
  IN [R3 |-> R3, first |-> AddressOf(at, 0),
      second |-> AddressOf(at, GarbageBlock)]

\* The program calls the global guard function once.  MBB2 reads the RNG
\* address again for as long as it finds zero there.
CallGlobalGuard ==
  /\ pc = "done" /\ guard.created
  /\ ret = << >>
  /\ \E r \in RNGReads :
       IF guard.mode = "runtime" /\ r = 0
         THEN ret' = ret
         ELSE ret' = << [fn |-> "__randezvous_globalguard_getaddr",
                         arg |-> r, val |-> RunAccessor(r)] >>
  /\ UNCHANGED << gdlrVars, icallVars, lgpVars, Funcs, Xformed, cdlaPC, curF,
                  curB, LeakableMBBs, counters, Statistics >>

\* Runs of GDLR that ask for the global guard, and the program calling it
InitGuard == InitGDLR /\ cfg.EnableGDLR /\ cfg.EnableGlobalGuard
NextGuard == NextGDLR \/ CallGlobalGuard
SpecGuard == InitGuard /\ [][NextGuard]_vars

C26_CreatedObjectsInUsed ==
  pc = "done" /\ cfg.EnableGDLR =>
    /\ GarbageIds \subseteq llvmUsed.globals
    /\ guard.created =>
         "__randezvous_globalguard_getaddr" \in llvmUsed.functions


\* The run was stopped inside the share computation of lines 556-564
StoppedInShares == pc = "crash" /\ ~guard.created

\* C28: whenever a share is computed for a category that has globals, the
\* sum of the weights drawn for it, the divisor, is not zero, whatever the
\* weights drawn (each may be zero): the computation never stops the
\* compiler.
C28_DivisorNeverZero ==
  \A c \in {"rodata", "data", "bss"} :
    StoppedInShares /\ Shares[c] # << >> => SumSeq(Shares[c]) # 0


\* C29: once createGlobalGuardFunction has made its list of candidates the
\* list is not empty, whatever RandezvousNumGlobalGuardCandidates is and
\* whether or not an eligible garbage object exists, so that the index
\* (*RNG)() % GlobalGuardCandidates.size() is defined.
C29_CandidateListNonEmpty ==
  guard.created => guard.candidates # << >>

-----------------------------------------------------------------------------
(* CDLA: control data leakage analysis                                      *)

MaxUsers == 2        \* users in the use graph of a Function
MaxFuncs == 3        \* Functions of a Module whose tail calls are followed
MaxBlocks == 3       \* MachineBasicBlocks of an analysed MachineFunction

RECURSIVE SortedSeq(_)
SortedSeq(S) ==
  IF S = {} THEN << >>
  ELSE LET m == CHOOSE x \in S : \A y \in S : x <= y
       IN << m >> \o SortedSeq(S \ {m})

(* ---- the input: Functions, their use graphs and MachineFunctions ---- *)

\* A User of the Function's address or of a value derived from it.  Value 0
\* is the Function itself, value U > 0 is user U.  ops are the values the
\* user has as operands, args those it passes as call arguments.
User(kind, isCompare, name, ops, args) ==
  [kind |-> kind, isCompare |-> isCompare, name |-> name, ops |-> ops,
   args |-> args]

UserShapes ==
  { [kind |-> k, isCompare |-> FALSE, name |-> "", asArg |-> FALSE] :
      k \in {"PHINode", "GlobalAlias", "BlockAddress", "Constant",
             "StoreInst", "CastInst", "SelectInst", "CmpInst", "Other"} }
  \cup { [kind |-> "ConstantExpr", isCompare |-> c, name |-> "",
          asArg |-> FALSE] : c \in BOOLEAN }
  \cup { [kind |-> "GlobalVariable", isCompare |-> FALSE, name |-> n,
          asArg |-> FALSE] :
           n \in {"llvm.used", "llvm.compiler.used", "table"} }
  \cup { [kind |-> "CallInst", isCompare |-> FALSE, name |-> "",
          asArg |-> a] : a \in BOOLEAN }

\* llvm::Constant and its subclasses
IsConstantKind(kind) ==
  kind \in {"GlobalAlias", "BlockAddress", "ConstantExpr", "GlobalVariable",
            "Constant"}

\* A user that can be added as the next one of use graph g, n users in all:
\* a constant has constant operands only, a block address is one of the
\* Function itself, and only a PHI has an operand defined after it.
WellFormedUse(g, n, c) ==
  LET s == c[1]
      v == c[2]
      back == c[3]
  IN /\ Cardinality(back) <= 1
     /\ back # {} => s.kind = "PHINode"
     /\ IsConstantKind(s.kind) => (v = 0 \/ IsConstantKind(g[v].kind))
     /\ s.kind = "BlockAddress" => v = 0

UseChoices(g, n) ==
  { c \in UserShapes \X (0..Len(g)) \X (SUBSET ((Len(g) + 1)..n)) :
      WellFormedUse(g, n, c) }

RECURSIVE UseGraphsFrom(_, _)
UseGraphsFrom(g, n) ==
  IF Len(g) = n THEN {g}
  ELSE UNION { UseGraphsFrom(
                 Append(g, User(c[1].kind, c[1].isCompare, c[1].name,
                                {c[2]} \cup c[3],
                                IF c[1].asArg THEN {c[2]} ELSE {})), n) :
               c \in UseChoices(g, n) }

UseGraphs == UNION { UseGraphsFrom(<< >>, n) : n \in 0..MaxUsers }

\* Machine instructions and their operand 0 / operand 2
NoOperand == [kind |-> "none", callee |-> 0, alias |-> FALSE]
GlobalOperand(f, a) == [kind |-> "global", callee |-> f, alias |-> a]
SymbolOperand == [kind |-> "symbol", callee |-> 0, alias |-> FALSE]
Instr(op, mo) == [op |-> op, mo |-> mo]
Plain == Instr("tMOVr", NoOperand)

Block(is) == [trap |-> FALSE, instrs |-> is]
TrapBlock == [trap |-> TRUE, instrs |-> << Instr("t2UDF_ga", NoOperand) >>]

Function(mf, valid, csi, bs, us) ==
  [hasMF |-> mf, CSIValid |-> valid, CalleeSavedInfo |-> csi, blocks |-> bs,
   users |-> us]

\* A declaration: MMI.getMachineFunction(F) is null
External == Function(FALSE, FALSE, {}, << >>, << >>)

(* ---- isReallyAddressTaken ---- *)

\* Function::hasAddressTaken(): some use is neither a block address nor the
\* callee of a call
hasAddressTaken(f) ==
  \E U \in DOMAIN Funcs[f].users :
    LET u == Funcs[f].users[U]
    IN /\ 0 \in u.ops
       /\ u.kind # "BlockAddress"
       /\ ~(u.kind = "CallInst" /\ 0 \notin u.args)

\* V->users(), in use-list order
UsersOf(f, V) ==
  SortedSeq({ U \in DOMAIN Funcs[f].users : V \in Funcs[f].users[U].ops })

\* Lines 136-140: a constant expression is followed unless it is a compare
FollowsConstantExpr_never(u) == FALSE

FollowsConstantExpr(u) == ~u.isCompare

\* Lines 143-144: a global variable is memory unless it is LLVM metadata
IsStoredInMemory(name) ==
  name # "llvm.used" /\ name # "llvm.compiler.used"

\* A faulty variant of FollowsPHI: the set of PHIs met is not consulted
FollowsPHI_always(U, PHIs) == TRUE

\* Line 125: a PHINode is followed unless it was followed before
FollowsPHI(U, PHIs) == U \notin PHIs

\* Lines 122-171: the loop over the users of V; Us is what is left of it.
\* ret is TRUE when the loop has returned true from the function.
RECURSIVE ExamineUsers(_, _, _, _, _)
ExamineUsers(f, V, Us, Worklist, PHIs) ==
  IF Us = << >>
    THEN [ret |-> FALSE, Worklist |-> Worklist, PHIs |-> PHIs]
    ELSE
      LET U == Head(Us)
          u == Funcs[f].users[U]
          skip == ExamineUsers(f, V, Tail(Us), Worklist, PHIs)
          push == ExamineUsers(f, V, Tail(Us), Append(Worklist, U), PHIs)
          escaped == [ret |-> TRUE, Worklist |-> Worklist, PHIs |-> PHIs]
      IN CASE u.kind = "PHINode" ->
                IF FollowsPHI(U, PHIs)
                  THEN ExamineUsers(f, V, Tail(Us), Append(Worklist, U),
                                    PHIs \cup {U})
                  ELSE skip
           [] u.kind = "GlobalAlias" -> push
           [] u.kind = "BlockAddress" -> skip
           [] u.kind = "ConstantExpr" ->
                IF FollowsConstantExpr(u) THEN push ELSE skip
           [] u.kind = "GlobalVariable" ->
                IF IsStoredInMemory(u.name) THEN escaped ELSE skip
           [] u.kind = "Constant" -> push
           [] u.kind = "StoreInst" -> escaped
           [] u.kind = "CastInst" -> push
           [] u.kind = "SelectInst" -> push
           [] u.kind = "CmpInst" -> skip
           [] u.kind = "CallInst" -> IF V \in u.args THEN escaped ELSE skip
           [] OTHER -> skip

\* Lines 115-172: the worklist loop
RECURSIVE WorklistLoop(_, _, _)
WorklistLoop(f, Worklist, PHIs) ==
  IF Worklist = << >> THEN FALSE
  ELSE LET V == Worklist[Len(Worklist)]
           r == ExamineUsers(f, V, UsersOf(f, V),
                             SubSeq(Worklist, 1, Len(Worklist) - 1), PHIs)
       IN IF r.ret THEN TRUE ELSE WorklistLoop(f, r.Worklist, r.PHIs)

isReallyAddressTaken(f) ==
  IF ~hasAddressTaken(f) THEN FALSE ELSE WorklistLoop(f, << 0 >>, {})

\* Most values the history of a worklist loop records before it gives up
MaxPushes == 8

\* Lines 115-172 with their history: the worklist loop as WorklistLoop has
\* it, and with it every value pushed onto Worklist so far, in order.
\* ended tells that the loop was left, by a return or with Worklist empty.
RECURSIVE WorklistHistory(_, _, _, _)
WorklistHistory(f, Worklist, PHIs, pushed) ==
  IF Worklist = << >>
    THEN [ret |-> FALSE, pushed |-> pushed, ended |-> TRUE]
  ELSE IF Len(pushed) > MaxPushes
    THEN [ret |-> FALSE, pushed |-> pushed, ended |-> FALSE]
  ELSE LET V == Worklist[Len(Worklist)]
           r == ExamineUsers(f, V, UsersOf(f, V),
                             SubSeq(Worklist, 1, Len(Worklist) - 1), PHIs)
           new == SubSeq(r.Worklist, Len(Worklist), Len(r.Worklist))
       IN IF r.ret
            THEN [ret |-> TRUE, pushed |-> pushed \o new, ended |-> TRUE]
            ELSE WorklistHistory(f, r.Worklist, r.PHIs, pushed \o new)

\* Lines 107-114: the loop is entered with the Function on the worklist
TraversalOf(f) ==
  IF ~hasAddressTaken(f)
    THEN [ret |-> FALSE, pushed |-> << >>, ended |-> TRUE]
    ELSE WorklistHistory(f, << 0 >>, {}, << 0 >>)

(* ---- canSpillLinkRegister ---- *)

\* Lines 226-234 (300-310, 342-351): the Function behind a global operand,
\* through aliases and ifuncs
CalledFunction(MO) == MO.callee

\* Lines 208-213: the callee-saved registers include LR
SavesLinkRegister_R7(F) == "R7" \in F.CalleeSavedInfo

SavesLinkRegister(F) == "LR" \in F.CalleeSavedInfo

\* The instructions of a MachineFunction in the order the two nested loops
\* of lines 218-219 visit them
RECURSIVE Flatten(_)
Flatten(bs) ==
  IF bs = << >> THEN << >> ELSE Head(bs).instrs \o Flatten(Tail(bs))

\* canSpillLinkRegister(F) while the Functions of Stack are being examined
\* further up the call stack.  The method keeps no record of the Functions
\* it is examining: coming back to one of them repeats the same recursion
\* without end ("diverge").
RECURSIVE SpillFrom(_, _), TailCallScan(_, _)
SpillFrom(f, Stack) ==
  IF f \in Stack THEN "diverge"
  ELSE IF ~Funcs[f].hasMF THEN "true"
  ELSE IF ~Funcs[f].CSIValid THEN "true"
  ELSE IF SavesLinkRegister(Funcs[f]) THEN "true"
  ELSE TailCallScan(Flatten(Funcs[f].blocks), Stack \cup {f})

\* Lines 218-255: the scan for tail calls; MIs is what is left of it
TailCallScan(MIs, Stack) ==
  IF MIs = << >> THEN "false"
  ELSE LET MI == Head(MIs)
       IN IF MI.op \in {"tTAILJMPd", "tTAILJMPdND"}
            THEN IF MI.mo.kind = "global"
                   THEN LET r == SpillFrom(CalledFunction(MI.mo), Stack)
                        IN IF r = "false"
                             THEN TailCallScan(Tail(MIs), Stack)
                             ELSE r
                   ELSE "true"
          ELSE IF MI.op = "tTAILJMPr" THEN "true"
          ELSE TailCallScan(Tail(MIs), Stack)

canSpillLinkRegister(f) == SpillFrom(f, {})

(* ---- determineLeakability ---- *)

\* MBB.getLastNonDebugInstr(): its position, 0 for MBB.end()
getLastNonDebugInstr(MBB) ==
  LET real == { i \in DOMAIN MBB.instrs : MBB.instrs[i].op # "DBG_VALUE" }
  IN IF real = {} THEN 0 ELSE CHOOSE i \in real : \A j \in real : j <= i

\* Lines 287-291: the layout predecessor is leakable
LayoutPredLeakable_never(f, b) == FALSE

LayoutPredLeakable(f, b) == b > 1 /\ << f, b - 1 >> \in LeakableMBBs

\* A faulty variant of LayoutPredCall: the predecessor is not looked at
LayoutPredCall_never(f, b) == "false"

\* Lines 294-331: the layout predecessor ends with a call that may spill LR
LayoutPredCall(f, b) ==
  IF b = 1 THEN "false"
  ELSE LET Pred == Funcs[f].blocks[b - 1]
           last == getLastNonDebugInstr(Pred)
       IN IF last = 0 THEN "false"
          ELSE LET MI == Pred.instrs[last]
               IN IF MI.op \in {"tBL", "tBLXi"}
                    THEN IF MI.mo.kind = "global"
                           THEN canSpillLinkRegister(CalledFunction(MI.mo))
                           ELSE "true"
                  ELSE IF MI.op \in {"tBLXr", "tBLXr_Randezvous"}
                    THEN "true"
                  ELSE "false"

\* Lines 336-377: a call in MBB that is not its last instruction; i is the
\* position the loop is at
RECURSIVE OwnCalls(_, _)
OwnCalls(MBB, i) ==
  IF i > Len(MBB.instrs) THEN "false"
  ELSE LET MI == MBB.instrs[i]
           notLast == getLastNonDebugInstr(MBB) # i
       IN IF MI.op \in {"tBL", "tBLXi"}
            THEN IF MI.mo.kind = "global"
                   THEN LET r == canSpillLinkRegister(CalledFunction(MI.mo))
                        IN IF r = "diverge" THEN r
                           ELSE IF r = "true" /\ notLast THEN "true"
                           ELSE OwnCalls(MBB, i + 1)
                   ELSE IF notLast THEN "true" ELSE OwnCalls(MBB, i + 1)
          ELSE IF MI.op \in {"tBLXr", "tBLXr_Randezvous"}
            THEN IF notLast THEN "true" ELSE OwnCalls(MBB, i + 1)
          ELSE OwnCalls(MBB, i + 1)

\* A faulty variant of determineLeakability: only the block's own calls count
determineLeakability_own(f, b) == OwnCalls(Funcs[f].blocks[b], 1)

determineLeakability(f, b) ==
  IF LayoutPredLeakable(f, b) THEN "true"
  ELSE LET p == LayoutPredCall(f, b)
       IN IF p # "false" THEN p ELSE OwnCalls(Funcs[f].blocks[b], 1)

\* getBasicBlockCodeSize(MBB): the bytes of its instructions
InstSize(MI) ==
  IF MI.op = "DBG_VALUE" THEN 0
  ELSE IF MI.op \in {"tBL", "tBLXi", "t2UDF_ga"} THEN 4
  ELSE 2

RECURSIVE getCodeSize(_)
getCodeSize(MIs) ==
  IF MIs = << >> THEN 0 ELSE InstSize(Head(MIs)) + getCodeSize(Tail(MIs))

getBasicBlockCodeSize(MBB) == getCodeSize(MBB.instrs)

(* ---- runOnModule ---- *)

ZeroCounters ==
  [CodeSize |-> 0, CodeSizeLeakable |-> 0, CodeSizeLeakableViaFuncPtr |-> 0,
   CodeSizeLeakableViaRetAddr |-> 0, NumFuncs |-> 0, NumFuncsLeakable |-> 0,
   NumBBs |-> 0, NumBBsLeakable |-> 0]

CounterNames == DOMAIN ZeroCounters

\* The state when runOnModule is entered on Module fs
CDLAStart(fs, x) ==
  /\ Funcs = fs
  /\ Xformed = x
  /\ cdlaPC = "function"
  /\ curF = 1
  /\ curB = 0
  /\ LeakableMBBs = {}
  /\ counters = ZeroCounters
  /\ Statistics = [Original |-> ZeroCounters, Xformed |-> ZeroCounters]
  /\ ret = << >>

NonTrapBlocks(f) ==
  { b \in DOMAIN Funcs[f].blocks : ~Funcs[f].blocks[b].trap }

SizeOfBlocks(f, bs) ==
  getCodeSize(Flatten([i \in 1..Cardinality(bs) |->
                         Funcs[f].blocks[SortedSeq(bs)[i]]]))

\* Lines 409-413: a Function without MachineFunction is passed over
SkipFunction ==
  /\ cdlaPC = "function"
  /\ curF <= Len(Funcs)
  /\ ~Funcs[curF].hasMF
  /\ curF' = curF + 1
  /\ UNCHANGED << Funcs, Xformed, cdlaPC, curB, LeakableMBBs, counters,
                  Statistics, ret >>
  /\ UNCHANGED otherThanCDLA

\* Lines 415-422: the Function, its blocks and its code size are counted
CountFunction ==
  /\ cdlaPC = "function"
  /\ curF <= Len(Funcs)
  /\ Funcs[curF].hasMF
  /\ counters' = [counters EXCEPT
                    !.NumFuncs = @ + 1,
                    !.NumBBs = @ + Cardinality(NonTrapBlocks(curF)),
                    !.CodeSize = @ + SizeOfBlocks(curF, NonTrapBlocks(curF))]
  /\ cdlaPC' = "escape"
  /\ UNCHANGED << Funcs, Xformed, curF, curB, LeakableMBBs, Statistics, ret >>
  /\ UNCHANGED otherThanCDLA

\* A faulty variant of AlreadyLeakable: the set is not consulted
AlreadyLeakable_never(f, b) == FALSE

\* Lines 432 and 447: LeakableMBBs.count(&MBB) != 0
AlreadyLeakable(f, b) == << f, b >> \in LeakableMBBs

\* Lines 424-438: every block of a Function whose address escapes is leakable
MarkFunction ==
  /\ cdlaPC = "escape"
  /\ LET new == { << curF, b >> :
                  b \in { n \in NonTrapBlocks(curF) :
                            ~AlreadyLeakable(curF, n) } }
     IN IF isReallyAddressTaken(curF)
          THEN /\ LeakableMBBs' = LeakableMBBs \cup new
               /\ counters' =
                    [counters EXCEPT
                       !.NumFuncsLeakable = @ + 1,
                       !.CodeSizeLeakableViaFuncPtr =
                          @ + SizeOfBlocks(curF, NonTrapBlocks(curF)),
                       !.CodeSizeLeakable =
                          @ + SizeOfBlocks(curF, { p[2] : p \in new })]
          ELSE UNCHANGED << LeakableMBBs, counters >>
  /\ cdlaPC' = "blocks"
  /\ curB' = 1
  /\ UNCHANGED << Funcs, Xformed, curF, Statistics, ret >>
  /\ UNCHANGED otherThanCDLA

\* Lines 440-453: one turn of the loop over the blocks of the Function
AnalyzeBlock ==
  /\ cdlaPC = "blocks"
  /\ LET MBB == Funcs[curF].blocks[curB]
         leak == IF MBB.trap THEN "false"
                 ELSE determineLeakability(curF, curB)
         size == getBasicBlockCodeSize(MBB)
         last == curB = Len(Funcs[curF].blocks)
     IN /\ IF leak = "diverge"
             THEN /\ cdlaPC' = "diverge"
                  /\ UNCHANGED << curF, curB, LeakableMBBs, counters >>
             ELSE /\ IF leak = "true"
                       THEN /\ LeakableMBBs' =
                                 LeakableMBBs \cup {<< curF, curB >>}
                            /\ counters' =
                                 [counters EXCEPT
                                    !.NumBBsLeakable = @ + 1,
                                    !.CodeSizeLeakableViaRetAddr = @ + size,
                                    !.CodeSizeLeakable =
                                       IF AlreadyLeakable(curF, curB)
                                         THEN @ ELSE @ + size]
                       ELSE UNCHANGED << LeakableMBBs, counters >>
                  /\ cdlaPC' = IF last THEN "function" ELSE "blocks"
                  /\ curF' = IF last THEN curF + 1 ELSE curF
                  /\ curB' = IF last THEN 0 ELSE curB + 1
        \* line 443: what the call of determineLeakability returned
        /\ ret' = IF MBB.trap \/ leak = "diverge" THEN ret
                  ELSE << [fn |-> "determineLeakability",
                           arg |-> << curF, curB >>, val |-> leak] >>
  /\ UNCHANGED << Funcs, Xformed, Statistics >>
  /\ UNCHANGED otherThanCDLA

\* Lines 456-478: the counters are added to the statistics; return false
UpdateStatistics ==
  /\ cdlaPC = "function"
  /\ curF > Len(Funcs)
  /\ LET which == IF Xformed THEN "Xformed" ELSE "Original"
     IN Statistics' =
          [Statistics EXCEPT
             ![which] = [n \in CounterNames |-> @[n] + counters[n]]]
  /\ cdlaPC' = "done"
  /\ UNCHANGED << Funcs, Xformed, curF, curB, LeakableMBBs, counters, ret >>
  /\ UNCHANGED otherThanCDLA

NextCDLA ==
  \/ SkipFunction
  \/ CountFunction
  \/ MarkFunction
  \/ AnalyzeBlock
  \/ UpdateStatistics

(* ---- the Modules analysed ---- *)

CompareOnly == << User("CmpInst", FALSE, "", {0}, {}) >>
StoredOnce == << User("StoreInst", FALSE, "", {0}, {}) >>
FewUseGraphs == { << >>, CompareOnly, StoredOnce }

\* Blocks of Function 1 of a Module of two Functions
BlockShapes ==
  { TrapBlock,
    Block(<< Plain >>),
    Block(<< Instr("tBLXr", NoOperand) >>),
    Block(<< Instr("tBL", SymbolOperand), Instr("DBG_VALUE", NoOperand) >>) }
  \cup { Block(<< Plain, Instr("tBL", GlobalOperand(g, FALSE)) >>) :
           g \in 1..2 }
  \cup { Block(<< Instr("tBLXi", GlobalOperand(g, TRUE)), Plain >>) :
           g \in 1..2 }

BlockLists == UNION { [1..n -> BlockShapes] : n \in 1..MaxBlocks }

\* Function 2, called by Function 1
Callees ==
  { External,
    Function(TRUE, TRUE, {"R7"}, << Block(<< Plain >>) >>, << >>),
    Function(TRUE, TRUE, {"R7", "LR"},
             << Block(<< Instr("tBL", GlobalOperand(1, FALSE)), Plain >>),
                Block(<< Plain >>) >>, StoredOnce),
    Function(TRUE, TRUE, {},
             << Block(<< Instr("tTAILJMPd", GlobalOperand(2, FALSE)) >>) >>,
             << >>) }

CDLAModules ==
  { << Function(TRUE, TRUE, csi, bs, us), callee >> :
      csi \in {{"R7"}, {"R7", "LR"}}, bs \in BlockLists,
      us \in FewUseGraphs, callee \in Callees }

InitCDLA ==
  /\ GDLRIdle /\ ICallIdle /\ LGPIdle
  /\ \E fs \in CDLAModules, x \in BOOLEAN : CDLAStart(fs, x)

SpecCDLA == InitCDLA /\ [][NextCDLA]_vars

(* ---- isReallyAddressTaken and canSpillLinkRegister on their own ---- *)

InitEscape ==
  /\ GDLRIdle /\ ICallIdle /\ LGPIdle
  /\ \E g \in UseGraphs :
       CDLAStart(<< Function(TRUE, TRUE, {"R7", "LR"},
                             << Block(<< Plain >>) >>, g) >>, FALSE)

ApplyIsReallyAddressTaken ==
  /\ ret = << >>
  /\ \E f \in DOMAIN Funcs :
       ret' = << [fn |-> "isReallyAddressTaken", arg |-> f,
                  val |-> isReallyAddressTaken(f)] >>
  /\ UNCHANGED << Funcs, Xformed, cdlaPC, curF, curB, LeakableMBBs, counters,
                  Statistics >>
  /\ UNCHANGED otherThanCDLA

SpecEscape == InitEscape /\ [][ApplyIsReallyAddressTaken]_vars

\* isReallyAddressTaken is run with the history of its worklist kept
ApplyTraversal ==
  /\ ret = << >>
  /\ \E f \in DOMAIN Funcs :
       ret' = << [fn |-> "Worklist", arg |-> f, val |-> TraversalOf(f)] >>
  /\ UNCHANGED << Funcs, Xformed, cdlaPC, curF, curB, LeakableMBBs, counters,
                  Statistics >>
  /\ UNCHANGED otherThanCDLA

SpecWorklist == InitEscape /\ [][ApplyTraversal]_vars

\* Bodies of a MachineFunction among n Functions, by their tail calls
TailBodies(n) ==
  { << Block(<< Plain >>) >>,
    << Block(<< Plain, Instr("tTAILJMPr", NoOperand) >>) >>,
    << Block(<< Instr("tTAILJMPd", SymbolOperand) >>) >>,
    << Block(<< Instr("tTAILJMPdND", GlobalOperand(1, TRUE)) >>) >>,
    << Block(<< Instr("tTAILJMPd", GlobalOperand(1, FALSE)) >>),
       Block(<< Instr("tTAILJMPd", GlobalOperand(n, FALSE)) >>) >> }
  \cup { << Block(<< Plain >>),
            Block(<< Instr("tTAILJMPd", GlobalOperand(g, FALSE)) >>) >> :
           g \in 1..n }

SpillShapes(n) ==
  { External }
  \cup { Function(TRUE, FALSE, {}, bs, << >>) : bs \in TailBodies(n) }
  \cup { Function(TRUE, TRUE, csi, bs, << >>) :
           csi \in {{"R7"}, {"R7", "LR"}}, bs \in TailBodies(n) }

InitSpill ==
  /\ GDLRIdle /\ ICallIdle /\ LGPIdle
  /\ \E n \in 1..MaxFuncs :
       \E fs \in [1..n -> SpillShapes(n)] : CDLAStart(fs, FALSE)

ApplyCanSpillLinkRegister ==
  /\ ret = << >>
  /\ \E f \in DOMAIN Funcs :
       ret' = << [fn |-> "canSpillLinkRegister", arg |-> f,
                  val |-> canSpillLinkRegister(f)] >>
  /\ UNCHANGED << Funcs, Xformed, cdlaPC, curF, curB, LeakableMBBs, counters,
                  Statistics >>
  /\ UNCHANGED otherThanCDLA

SpecSpill == InitSpill /\ [][ApplyCanSpillLinkRegister]_vars

(* ---- properties of CDLA ---- *)

\* The values that are the Function's address itself: the Function, and
\* the casts, aliases, constant aggregates and constant expressions other
\* than compares of such values
RECURSIVE CarriersFrom(_, _)
CarriersFrom(f, S) ==
  LET users == Funcs[f].users
      more == { U \in DOMAIN users :
                  /\ users[U].ops \cap S # {}
                  /\ \/ users[U].kind \in {"CastInst", "GlobalAlias",
                                           "Constant"}
                     \/ users[U].kind = "ConstantExpr"
                        /\ ~users[U].isCompare }
  IN IF more \subseteq S THEN S ELSE CarriersFrom(f, S \cup more)

AddressCarriers(f) == CarriersFrom(f, {0})

IsComparison(u) ==
  u.kind = "CmpInst" \/ (u.kind = "ConstantExpr" /\ u.isCompare)

OnlyCompared(f) ==
  \A U \in DOMAIN Funcs[f].users :
    0 \in Funcs[f].users[U].ops => IsComparison(Funcs[f].users[U])

StoredOrInInitializer(f) ==
  \E U \in DOMAIN Funcs[f].users :
    LET u == Funcs[f].users[U]
    IN /\ u.ops \cap AddressCarriers(f) # {}
       /\ \/ u.kind = "StoreInst"
          \/ u.kind = "GlobalVariable"
             /\ u.name \notin {"llvm.used", "llvm.compiler.used"}

\* C6: isReallyAddressTaken(F) is false when the address of F is never used
\* or is used by comparisons only, and true when the address is stored to
\* memory or is, possibly through casts, constant expressions or aliases,
\* in the initializer of a global variable other than llvm.used and
\* llvm.compiler.used.
C6_EscapeVerdict ==
  \A i \in DOMAIN ret :
    ret[i].fn = "isReallyAddressTaken" =>
      /\ OnlyCompared(ret[i].arg) => ret[i].val = FALSE
      /\ StoredOrInInitializer(ret[i].arg) => ret[i].val = TRUE

\* C6 witness: the function was found address-taken for a global variable
\* whose initializer holds a constant expression of its address.
C6_Witness ==
  /\ ret # << >>
  /\ ret[1].fn = "isReallyAddressTaken"
  /\ ret[1].val = TRUE
  /\ \E U \in DOMAIN Funcs[1].users :
       /\ Funcs[1].users[U].kind = "GlobalVariable"
       /\ Funcs[1].users[U].name = "table"
       /\ 0 \notin Funcs[1].users[U].ops
  /\ \A U \in DOMAIN Funcs[1].users :
       Funcs[1].users[U].kind \in {"GlobalVariable", "ConstantExpr"}

\* Every cycle of the use graph of f passes through a PHINode: no other
\* user has an operand that is defined after it
CyclesPassPHIs(f) ==
  \A U \in DOMAIN Funcs[f].users :
    Funcs[f].users[U].kind # "PHINode" =>
      \A v \in Funcs[f].users[U].ops : v < U

\* How often value V was pushed onto the worklist
TimesPushed(pushed, V) == Cardinality({ i \in DOMAIN pushed : pushed[i] = V })

\* C27: the worklist loop of isReallyAddressTaken pushes each PHINode at
\* most once, and on a use graph whose every cycle passes through a PHINode
\* it comes to an end.
C27_PHIsFollowedOnce ==
  \A i \in DOMAIN ret :
    ret[i].fn = "Worklist" =>
      LET f == ret[i].arg
          h == ret[i].val
      IN /\ \A U \in DOMAIN Funcs[f].users :
              Funcs[f].users[U].kind = "PHINode" =>
                TimesPushed(h.pushed, U) <= 1
         /\ CyclesPassPHIs(f) => h.ended

\* C27 witness: the traversal ended on a use graph with a cycle through a
\* PHINode, having followed the PHINode and a user of it that is one of its
\* operands.
C27_Witness ==
  /\ ret # << >>
  /\ ret[1].fn = "Worklist"
  /\ ret[1].val.ended
  /\ \E U, W \in DOMAIN Funcs[1].users :
       /\ Funcs[1].users[U].kind = "PHINode"
       /\ U < W
       /\ W \in Funcs[1].users[U].ops
       /\ U \in Funcs[1].users[W].ops
       /\ TimesPushed(ret[1].val.pushed, U) = 1
       /\ TimesPushed(ret[1].val.pushed, W) = 1

AnalysedFunctions == { f \in DOMAIN Funcs : Funcs[f].hasMF }

\* C7 as stated: at the end of a run, every block (trap blocks included)
\* whose layout predecessor is leakable is leakable.
C7_PropagatesToEveryBlock ==
  cdlaPC = "done" =>
    \A f \in AnalysedFunctions :
      \A b \in 2..Len(Funcs[f].blocks) :
        << f, b - 1 >> \in LeakableMBBs => << f, b >> \in LeakableMBBs

\* C7, amended: at the end of a run, every block that is not a trap block
\* and whose layout predecessor is leakable is leakable.
C7_PropagatesToCodeBlocks ==
  cdlaPC = "done" =>
    \A f \in AnalysedFunctions :
      \A b \in 2..Len(Funcs[f].blocks) :
        (~Funcs[f].blocks[b].trap /\ << f, b - 1 >> \in LeakableMBBs)
          => << f, b >> \in LeakableMBBs

\* C7 witness: a finished run over a function whose address does not
\* escape, with three blocks in a row all leakable, the second and third
\* without any call.
C7_Witness ==
  /\ cdlaPC = "done"
  /\ Funcs[1].users = << >>
  /\ Len(Funcs[1].blocks) = 3
  /\ Funcs[1].blocks[1] # Block(<< Plain >>)
  /\ Funcs[1].blocks[2] = Block(<< Plain >>)
  /\ Funcs[1].blocks[3] = Block(<< Plain >>)
  /\ \A b \in 1..3 : << 1, b >> \in LeakableMBBs

HasTailCall(F) ==
  \E b \in DOMAIN F.blocks :
    \E i \in DOMAIN F.blocks[b].instrs :
      F.blocks[b].instrs[i].op \in {"tTAILJMPd", "tTAILJMPdND", "tTAILJMPr"}

\* C8: canSpillLinkRegister(F) is true when F has no MachineFunction, when
\* its callee-saved info is not valid or when its callee-saved registers
\* include LR; it is false for a function with a body, valid callee-saved
\* info without LR and no tail call.
C8_SpillVerdict ==
  \A i \in DOMAIN ret :
    ret[i].fn = "canSpillLinkRegister" =>
      LET F == Funcs[ret[i].arg]
      IN /\ (~F.hasMF \/ ~F.CSIValid \/ "LR" \in F.CalleeSavedInfo)
              => ret[i].val = "true"
         /\ (F.hasMF /\ F.CSIValid /\ "LR" \notin F.CalleeSavedInfo
             /\ ~HasTailCall(F)) => ret[i].val = "false"

\* C8 witness: the answer for a function, among others, that has a body,
\* valid callee-saved info without LR and no tail call.
C8_Witness ==
  /\ ret # << >>
  /\ ret[1].fn = "canSpillLinkRegister"
  /\ ret[1].val = "false"
  /\ Len(Funcs) > 1
  /\ LET F == Funcs[ret[1].arg]
     IN F.hasMF /\ F.CSIValid /\ F.CalleeSavedInfo = {"R7"}
        /\ ~HasTailCall(F)

(* ---- the statistics of a run ---- *)

\* The blocks the call rules make leakable whatever uses the address of the
\* function has: a block with a call that is not its last instruction, a
\* block after a block that ends with a call, and the blocks laid out after
\* such a block
RECURSIVE LeaksByCalls(_, _)
LeaksByCalls(f, b) ==
  /\ ~Funcs[f].blocks[b].trap
  /\ \/ LayoutPredCall(f, b) = "true"
     \/ OwnCalls(Funcs[f].blocks[b], 1) = "true"
     \/ b > 1 /\ LeaksByCalls(f, b - 1)

RetAddrBlocks ==
  { p \in AnalysedFunctions \X (1..MaxBlocks) :
      p[2] <= Len(Funcs[p[1]].blocks) /\ LeaksByCalls(p[1], p[2]) }

\* The blocks that follow a block of a function whose address escapes
FuncPtrFollowers ==
  { p \in AnalysedFunctions \X (2..MaxBlocks) :
      /\ p[2] <= Len(Funcs[p[1]].blocks)
      /\ isReallyAddressTaken(p[1])
      /\ ~Funcs[p[1]].blocks[p[2]].trap
      /\ ~Funcs[p[1]].blocks[p[2] - 1].trap }

\* Bytes of a set of blocks
RECURSIVE BytesOf(_)
BytesOf(S) ==
  IF S = {} THEN 0
  ELSE LET p == CHOOSE q \in S : TRUE
       IN getCodeSize(Funcs[p[1]].blocks[p[2]].instrs) + BytesOf(S \ {p})

C16_LeakableSizeDeduplicated ==
  /\ counters.CodeSizeLeakable = BytesOf(LeakableMBBs)
  /\ counters.CodeSizeLeakable <= counters.CodeSize
  /\ counters.CodeSizeLeakableViaFuncPtr <= counters.CodeSizeLeakable
  /\ counters.CodeSizeLeakableViaRetAddr <= counters.CodeSizeLeakable
  /\ counters.CodeSizeLeakable <=
       counters.CodeSizeLeakableViaFuncPtr
         + counters.CodeSizeLeakableViaRetAddr

\* C16 witness: a finished run in which a block was leaked through both
\* channels, so that the two channel sizes add up to more than the
\* leakable size.
C16_Witness ==
  /\ cdlaPC = "done"
  /\ counters.CodeSizeLeakable > 0
  /\ counters.CodeSizeLeakableViaFuncPtr + counters.CodeSizeLeakableViaRetAddr
       > counters.CodeSizeLeakable

(* ---- the verdicts of canSpillLinkRegister and determineLeakability ---- *)

\* C17: canSpillLinkRegister answers true or false for every function of
\* every program, programs with a cycle of direct tail calls among
\* functions that do not save LR included.
C17_SpillAlwaysAnswers ==
  \A i \in DOMAIN ret :
    ret[i].fn = "canSpillLinkRegister" => ret[i].val \in {"true", "false"}

\* A call that may leave the return address in memory: an indirect call, a
\* call to an unresolved symbol, or a direct call to a function that can
\* spill LR
IsSpillingCall(MI) ==
  \/ MI.op \in {"tBLXr", "tBLXr_Randezvous"}
  \/ /\ MI.op \in {"tBL", "tBLXi"}
     /\ \/ MI.mo.kind = "symbol"
        \/ /\ MI.mo.kind = "global"
           /\ canSpillLinkRegister(MI.mo.callee) = "true"

IsDebug(MI) == MI.op = "DBG_VALUE"

\* Rule 1: the layout predecessor of block b of f is in the leakable set
PredInLeakableSet(f, b) == b > 1 /\ << f, b - 1 >> \in LeakableMBBs

\* Rule 2: the last non-debug instruction of the layout predecessor is a
\* spilling call
PredEndsWithCall(f, b) ==
  /\ b > 1
  /\ LET MIs == Funcs[f].blocks[b - 1].instrs
     IN \E i \in DOMAIN MIs :
          /\ IsSpillingCall(MIs[i])
          /\ \A j \in (i + 1)..Len(MIs) : IsDebug(MIs[j])

\* Rule 3: the block has a spilling call followed by a non-debug instruction
CallBeforeEnd(f, b) ==
  LET MIs == Funcs[f].blocks[b].instrs
  IN \E i \in DOMAIN MIs :
       /\ IsSpillingCall(MIs[i])
       /\ \E j \in (i + 1)..Len(MIs) : ~IsDebug(MIs[j])

\* C18: determineLeakability(B) returns true exactly when the layout
\* predecessor of B is in the leakable set (1), or ends with a spilling call
\* (2), or B has a spilling call that is not its last non-debug instruction
\* (3); the first block of a function has rule 3 alone.
C18_LeakabilityRules ==
  \A i \in DOMAIN ret :
    ret[i].fn = "determineLeakability" =>
      LET f == ret[i].arg[1]
          b == ret[i].arg[2]
      IN /\ ret[i].val = "true" <=>
              \/ PredInLeakableSet(f, b)
              \/ PredEndsWithCall(f, b)
              \/ CallBeforeEnd(f, b)
         /\ b = 1 => (ret[i].val = "true" <=> CallBeforeEnd(f, b))

\* C18 witness: determineLeakability has returned false for a block whose
\* only call is its last instruction, after a block that is not in the
\* leakable set and does not end with a spilling call.
C18_Witness ==
  /\ ret # << >>
  /\ ret[1].fn = "determineLeakability"
  /\ ret[1].val = "false"
  /\ ret[1].arg[2] > 1
  /\ LET MBB == Funcs[ret[1].arg[1]].blocks[ret[1].arg[2]]
     IN /\ Len(MBB.instrs) = 2
        /\ IsSpillingCall(MBB.instrs[2])
        /\ ~Funcs[ret[1].arg[1]].blocks[ret[1].arg[2] - 1].trap

\* C30: when a run of CDLA that started with LeakableMBBs empty has
\* returned, the number of leakable blocks it reports is the number of
\* blocks in LeakableMBBs: a block marked through the function pointer
\* channel, the return address channel or both is counted once.
C30_LeakableCountIsSetSize ==
  cdlaPC = "done" =>
    /\ counters.NumBBsLeakable = Cardinality(LeakableMBBs)
    /\ Statistics[IF Xformed THEN "Xformed" ELSE "Original"].NumBBsLeakable
         = Cardinality(LeakableMBBs)

-----------------------------------------------------------------------------
(* ICallLimiter: indirect call register limiter                             *)

MaxInstrs == 3       \* instructions of the MachineFunction

\* Registers.  Physical register n is ARM::Rn (13 is SP, 14 LR, 15 PC);
\* virtual register n is the n-th one MachineRegisterInfo has created.
PhysReg(n) == [virtual |-> FALSE, n |-> n]
VirtReg(n) == [virtual |-> TRUE, n |-> n]
NoReg == [virtual |-> FALSE, n |-> -1]

\* Register classes, as the physical registers they hold
GPR == 0..15
tGPR == 0..7
hGPR == 8..15
tcGPR == {0, 1, 2, 3, 12}

\* A machine instruction: opcode, register defined, register read
\* (operand 2 of tBLXr) and predicate
MInstr(op, def, use, pred) ==
  [op |-> op, def |-> def, use |-> use, pred |-> pred]

\* MachineRegisterInfo::constrainRegClass: the class becomes the common
\* subclass, if there is one
constrainRegClass(classes, Reg, RC) ==
  IF classes[Reg.n] \cap RC = {} THEN classes
  ELSE [classes EXCEPT ![Reg.n] = @ \cap RC]

\* BuildMI(MBB, MI, ...): the new instruction goes in front of the one at i
BuildMI_after(MIs, i, New) ==
  SubSeq(MIs, 1, i) \o << New >> \o SubSeq(MIs, i + 1, Len(MIs))

BuildMI(MIs, i, New) ==
  SubSeq(MIs, 1, i - 1) \o << New >> \o SubSeq(MIs, i, Len(MIs))

\* MI.setDesc(TII->get(ARM::tBLXr_Randezvous))
setDesc(MI) == [MI EXCEPT !.op = "tBLXr_Randezvous"]

\* The instruction the two loops of lines 70-71 are at when the iterators
\* stand at instruction i of block b: << 0, 0 >> past the last one
RECURSIVE Seek(_, _, _)
Seek(mf, b, i) ==
  IF b > Len(mf) THEN << 0, 0 >>
  ELSE IF i <= Len(mf[b]) THEN << b, i >>
  ELSE Seek(mf, b + 1, 1)

\* The registers virtual in the input, by class
InputVRegs == << GPR, tGPR, hGPR >>

ICallStart(enabled, blocks) ==
  /\ EnableRandezvousICallLimiter = enabled
  /\ MF = blocks
  /\ MFin = blocks
  /\ VRegClass = InputVRegs
  /\ icallPC = "entry"
  /\ icallAt = << 0, 0 >>
  /\ icallChanged = FALSE
  /\ NumICallsLimited = 0

\* Lines 59-61: the pass is disabled
ReturnDisabled ==
  /\ icallPC = "entry"
  /\ ~EnableRandezvousICallLimiter
  /\ icallPC' = "done"
  /\ UNCHANGED << EnableRandezvousICallLimiter, MF, MFin, VRegClass, icallAt,
                  icallChanged, NumICallsLimited >>
  /\ UNCHANGED otherThanICall

\* Lines 63-70
EnterLoops ==
  /\ icallPC = "entry"
  /\ EnableRandezvousICallLimiter
  /\ icallPC' = "loop"
  /\ icallAt' = Seek(MF, 1, 1)
  /\ UNCHANGED << EnableRandezvousICallLimiter, MF, MFin, VRegClass,
                  icallChanged, NumICallsLimited >>
  /\ UNCHANGED otherThanICall

AtInstr == icallPC = "loop" /\ icallAt # << 0, 0 >>
ThisMI == MF[icallAt[1]][icallAt[2]]

\* Line 72: not an indirect call
PassOver ==
  /\ AtInstr
  /\ ThisMI.op # "tBLXr"
  /\ icallAt' = Seek(MF, icallAt[1], icallAt[2] + 1)
  /\ UNCHANGED << EnableRandezvousICallLimiter, MF, MFin, VRegClass, icallPC,
                  icallChanged, NumICallsLimited >>
  /\ UNCHANGED otherThanICall

\* Lines 75-77, 97-99: the call goes through a virtual register
LimitVirtual ==
  /\ AtInstr
  /\ ThisMI.op = "tBLXr"
  /\ ThisMI.use.virtual
  /\ VRegClass' = constrainRegClass(VRegClass, ThisMI.use, tcGPR)
  /\ MF' = [MF EXCEPT ![icallAt[1]][icallAt[2]] = setDesc(@)]
  /\ NumICallsLimited' = NumICallsLimited + 1
  /\ icallChanged' = TRUE
  /\ icallAt' = Seek(MF, icallAt[1], icallAt[2] + 1)
  /\ UNCHANGED << EnableRandezvousICallLimiter, MFin, icallPC >>
  /\ UNCHANGED otherThanICall

\* Lines 78, 97-99: the call goes through a physical register of tcGPR
MarkOnly ==
  /\ AtInstr
  /\ ThisMI.op = "tBLXr"
  /\ ~ThisMI.use.virtual
  /\ ThisMI.use.n \in tcGPR
  /\ MF' = [MF EXCEPT ![icallAt[1]][icallAt[2]] = setDesc(@)]
  /\ NumICallsLimited' = NumICallsLimited + 1
  /\ icallChanged' = TRUE
  /\ icallAt' = Seek(MF, icallAt[1], icallAt[2] + 1)
  /\ UNCHANGED << EnableRandezvousICallLimiter, MFin, VRegClass, icallPC >>
  /\ UNCHANGED otherThanICall

\* Lines 78-99: the call goes through a physical register outside tcGPR
LimitPhysical ==
  /\ AtInstr
  /\ ThisMI.op = "tBLXr"
  /\ ~ThisMI.use.virtual
  /\ ThisMI.use.n \notin tcGPR
  /\ LET b == icallAt[1]
         i == icallAt[2]
         Reg == ThisMI.use
         NewReg == VirtReg(Len(VRegClass) + 1)
         copy == IF ThisMI.pred = "AL"
                   THEN MInstr("COPY", NewReg, Reg, "AL")
                   ELSE MInstr("tMOVr", NewReg, Reg, ThisMI.pred)
         limited == setDesc([ThisMI EXCEPT !.use = NewReg])
     IN /\ VRegClass' = Append(VRegClass, tcGPR)
        /\ MF' = [MF EXCEPT ![b] = BuildMI([@ EXCEPT ![i] = limited], i, copy)]
        /\ icallAt' = Seek(MF', b, i + 2)
  /\ NumICallsLimited' = NumICallsLimited + 1
  /\ icallChanged' = TRUE
  /\ UNCHANGED << EnableRandezvousICallLimiter, MFin, icallPC >>
  /\ UNCHANGED otherThanICall

\* Line 104: return changed
ReturnChanged ==
  /\ icallPC = "loop"
  /\ icallAt = << 0, 0 >>
  /\ icallPC' = "done"
  /\ UNCHANGED << EnableRandezvousICallLimiter, MF, MFin, VRegClass, icallAt,
                  icallChanged, NumICallsLimited >>
  /\ UNCHANGED otherThanICall

NextICall ==
  \/ ReturnDisabled
  \/ EnterLoops
  \/ PassOver
  \/ LimitVirtual
  \/ MarkOnly
  \/ LimitPhysical
  \/ ReturnChanged

\* The instructions of the MachineFunctions handed to the pass
ICallInstrs ==
  { MInstr("tLDRi", PhysReg(0), PhysReg(13), "AL"),
    MInstr("tBL", NoReg, NoReg, "AL") }
  \cup { MInstr("tBLXr", NoReg, VirtReg(v), "AL") : v \in DOMAIN InputVRegs }
  \cup { MInstr("tBLXr", NoReg, PhysReg(r), p) :
           r \in {3, 4, 12}, p \in {"AL", "NE"} }

InitICall ==
  /\ GDLRIdle /\ CDLAIdle /\ LGPIdle
  /\ \E enabled \in BOOLEAN, n \in 0..MaxInstrs :
       \E is \in [1..n -> ICallInstrs], k \in 0..n :
         ICallStart(enabled, << SubSeq(is, 1, k), SubSeq(is, k + 1, n) >>)

SpecICall == InitICall /\ [][NextICall]_vars

(* ---- properties of ICallLimiter ---- *)

IsIndirectCall(MI) == MI.op \in {"tBLXr", "tBLXr_Randezvous"}
IsCopy(MI) == MI.op \in {"COPY", "tMOVr"}

InRestrictedClass(Reg) ==
  IF Reg.virtual THEN VRegClass[Reg.n] \subseteq tcGPR ELSE Reg.n \in tcGPR

\* Where instruction k of block b of the input is in the output
OriginalAt(b, k) ==
  CHOOSE j \in DOMAIN MF[b] :
    /\ ~IsCopy(MF[b][j])
    /\ Cardinality({ h \in 1..j : ~IsCopy(MF[b][h]) }) = k

\* C9: after an enabled run every indirect call has its target in tcGPR (a
\* virtual register constrained to the class, or a physical register of
\* the class) and has the opcode tBLXr_Randezvous; a call whose target was
\* a physical register outside the class reads a new virtual register of
\* the class, copied from that physical register right before the call.
C9_CallsLimited ==
  (icallPC = "done" /\ EnableRandezvousICallLimiter) =>
    /\ \A b \in DOMAIN MF : \A i \in DOMAIN MF[b] :
         IsIndirectCall(MF[b][i]) =>
           /\ MF[b][i].op = "tBLXr_Randezvous"
           /\ InRestrictedClass(MF[b][i].use)
    /\ \A b \in DOMAIN MFin : \A k \in DOMAIN MFin[b] :
         LET orig == MFin[b][k]
         IN (orig.op = "tBLXr" /\ ~orig.use.virtual
             /\ orig.use.n \notin tcGPR) =>
              LET j == OriginalAt(b, k)
                  callee == MF[b][j].use
              IN /\ callee.virtual
                 /\ callee.n > Len(InputVRegs)
                 /\ VRegClass[callee.n] = tcGPR
                 /\ j > 1
                 /\ IsCopy(MF[b][j - 1])
                 /\ MF[b][j - 1].def = callee
                 /\ MF[b][j - 1].use = orig.use
                 /\ \A c \in DOMAIN MF : \A h \in DOMAIN MF[c] :
                      (MF[c][h].use = callee \/ MF[c][h].def = callee)
                        => (c = b /\ h \in {j - 1, j})

\* C9 witness: a finished enabled run that constrained a virtual register,
\* and gave a predicated call through R4 a new register and a tMOVr.
C9_Witness ==
  /\ icallPC = "done" /\ EnableRandezvousICallLimiter
  /\ \E b \in DOMAIN MFin : \E k \in DOMAIN MFin[b] :
       MFin[b][k].op = "tBLXr" /\ MFin[b][k].use.virtual
  /\ \E b \in DOMAIN MF : \E i \in DOMAIN MF[b] :
       MF[b][i].op = "tMOVr" /\ MF[b][i].use = PhysReg(4)
  /\ VRegClass[2] = {0, 1, 2, 3}

-----------------------------------------------------------------------------
(* LGPromote: promotion of locals that hold function pointers to globals    *)

MaxLGFuncs == 2      \* Functions of the Module

\* Types
IntTy == [k |-> "int", fn |-> FALSE, n |-> 0, elems |-> << >>]
PtrTy(toFunction) ==
  [k |-> "pointer", fn |-> toFunction, n |-> 0, elems |-> << >>]
ArrayTy(n, T) == [k |-> "array", fn |-> FALSE, n |-> n, elems |-> << T >>]
StructTy(Ts) == [k |-> "struct", fn |-> FALSE, n |-> Len(Ts), elems |-> Ts]

RECURSIVE containsFunctionPointerType(_)
containsFunctionPointerType(Ty) ==
  IF Ty.k = "pointer" THEN Ty.fn
  ELSE IF Ty.k = "array" THEN containsFunctionPointerType(Ty.elems[1])
  ELSE IF Ty.k = "struct"
    THEN \E i \in DOMAIN Ty.elems : containsFunctionPointerType(Ty.elems[i])
  ELSE FALSE

\* A faulty variant of createNonZeroInitializerFor: the elements of an
\* aggregate are zeroed
createNonZeroInitializerFor_shallow(Ty) ==
  IF Ty.k = "pointer" THEN [v |-> 1, elems |-> << >>]
  ELSE [v |-> 0, elems |-> [i \in 1..Ty.n |-> [v |-> 0, elems |-> << >>]]]

\* A Constant: its own value for a scalar, its elements for an aggregate
RECURSIVE createNonZeroInitializerFor(_)
createNonZeroInitializerFor(Ty) ==
  IF Ty.k = "pointer" THEN [v |-> 1, elems |-> << >>]
  ELSE IF Ty.k = "array"
    THEN [v |-> 0,
          elems |-> [i \in 1..Ty.n |->
                       createNonZeroInitializerFor(Ty.elems[1])]]
  ELSE IF Ty.k = "struct"
    THEN [v |-> 0,
          elems |-> [i \in 1..Ty.n |->
                       createNonZeroInitializerFor(Ty.elems[i])]]
  ELSE [v |-> 0, elems |-> << >>]

\* An AllocaInst: its allocated type, whether its array size is a constant,
\* whether it stands in the entry block, and its alignment
Alloca(name, Ty, fixed, entry) ==
  [name |-> name, type |-> Ty, fixed |-> fixed, entry |-> entry,
   align |-> IF Ty.k = "int" THEN 4 ELSE 8]

\* AllocaInst::isStaticAlloca(): a constant size, and in the entry block
isStaticAlloca(AI) == AI.fixed /\ AI.entry

\* A reference to a local or to a global of that name

ValueRef(global, f, name) == [global |-> global, fn |-> f, name |-> name]

\* A Function: its allocas, the operands of its other instructions, the
\* Functions it calls directly, and whether the call graph has an edge to it
\* from the external calling node (external linkage or address taken)
LFunction(f, allocas, calls, external) ==
  [allocas |-> allocas,
   uses |-> [i \in 1..(2 * Len(allocas)) |->
               ValueRef(FALSE, f, allocas[(i + 1) \div 2].name)],
   calls |-> calls, external |-> external]

AllocaLists ==
  { << >>,
    << Alloca("fp", PtrTy(TRUE), TRUE, TRUE) >>,
    << Alloca("ops",
              StructTy(<< IntTy, ArrayTy(2, PtrTy(TRUE)), PtrTy(FALSE) >>),
              TRUE, TRUE),
       Alloca("n", IntTy, TRUE, TRUE) >>,
    << Alloca("vla", PtrTy(TRUE), FALSE, TRUE),
       Alloca("late", ArrayTy(2, PtrTy(TRUE)), TRUE, FALSE),
       Alloca("buf", StructTy(<< IntTy, PtrTy(FALSE) >>), TRUE, TRUE) >> }

(* ---- the call graph and its SCCs ---- *)

\* Node 0 is the external calling node, node f > 0 the node of Function f
CalledNodes(v) ==
  IF v = 0 THEN { f \in DOMAIN Fns : Fns[f].external } ELSE Fns[v].calls

RECURSIVE ReachFrom(_)
ReachFrom(S) ==
  LET more == UNION { CalledNodes(v) : v \in S }
  IN IF more \subseteq S THEN S ELSE ReachFrom(S \cup more)

SCCOf(v) == { w \in ReachFrom({v}) : v \in ReachFrom({w}) }

\* scc_begin(&CG): the SCCs of the nodes reachable from the entry node
AllSCCs == { SCCOf(v) : v \in ReachFrom({0}) }

\* scc_iterator::hasCycle()
hasCycle(SCC) ==
  Cardinality(SCC) > 1 \/ \E v \in SCC : v \in CalledNodes(v)

\* The iterator delivers an SCC after every SCC its nodes call into
Deliverable(SCC) ==
  /\ SCC \in SCCsLeft
  /\ \A v \in SCC : \A w \in CalledNodes(v) :
       w \in SCC \/ SCCOf(w) \notin SCCsLeft

(* ---- runOnModule ---- *)

LGPStart(enabled, fs) ==
  /\ EnableRandezvousLGPromote = enabled
  /\ Fns = fs
  /\ FnsIn = fs
  /\ NewGlobals = << >>
  /\ SCCsLeft = {}
  /\ lgpPC = "entry"
  /\ lgpChanged = FALSE

\* Lines 147-149: the pass is disabled
ReturnNotEnabled ==
  /\ lgpPC = "entry"
  /\ ~EnableRandezvousLGPromote
  /\ lgpPC' = "done"
  /\ UNCHANGED << EnableRandezvousLGPromote, Fns, FnsIn, NewGlobals,
                  SCCsLeft, lgpChanged >>
  /\ UNCHANGED otherThanLGP

\* Lines 151-156: the call graph is fetched and scc_begin() called
BeginSCCs ==
  /\ lgpPC = "entry"
  /\ EnableRandezvousLGPromote
  /\ SCCsLeft' = AllSCCs
  /\ lgpPC' = "sccs"
  /\ UNCHANGED << EnableRandezvousLGPromote, Fns, FnsIn, NewGlobals,
                  lgpChanged >>
  /\ UNCHANGED otherThanLGP

\* Line 159: an SCC with a cycle is passed over
SkipsSCC_never(SCC) == FALSE

SkipsSCC(SCC) == hasCycle(SCC)

SkipRecursive ==
  /\ lgpPC = "sccs"
  /\ \E SCC \in SCCsLeft :
       /\ Deliverable(SCC)
       /\ SkipsSCC(SCC)
       /\ SCCsLeft' = SCCsLeft \ {SCC}
  /\ UNCHANGED << EnableRandezvousLGPromote, Fns, FnsIn, NewGlobals, lgpPC,
                  lgpChanged >>
  /\ UNCHANGED otherThanLGP

\* Lines 163-166: the first node of the SCC has no Function
SkipNullFunction ==
  /\ lgpPC = "sccs"
  /\ \E SCC \in SCCsLeft :
       /\ Deliverable(SCC)
       /\ ~SkipsSCC(SCC)
       /\ \E front \in SCC : front = 0
       /\ SCCsLeft' = SCCsLeft \ {SCC}
  /\ UNCHANGED << EnableRandezvousLGPromote, Fns, FnsIn, NewGlobals, lgpPC,
                  lgpChanged >>
  /\ UNCHANGED otherThanLGP

\* Line 181: the alloca is promoted
IsPromoted(AI) ==
  isStaticAlloca(AI) /\ containsFunctionPointerType(AI.type)

\* Lines 182-187: the GlobalVariable created for alloca AI of Function f
GlobalFor(f, AI) ==
  [name |-> << f, AI.name >>, type |-> AI.type, isConstant |-> FALSE,
   linkage |-> "internal", init |-> createNonZeroInitializerFor(AI.type),
   align |-> AI.align]

\* A faulty variant of replaceAllUsesWith: only the first use is redirected
replaceAllUsesWith_first(uses, AI) ==
  [i \in DOMAIN uses |->
     IF /\ ~uses[i].global /\ uses[i].name = AI.name
        /\ \A j \in 1..(i - 1) : uses[j].name # AI.name
       THEN [uses[i] EXCEPT !.global = TRUE]
       ELSE uses[i]]

\* Line 189: AI->replaceAllUsesWith(GV)
replaceAllUsesWith(uses, AI) ==
  [i \in DOMAIN uses |->
     IF ~uses[i].global /\ uses[i].name = AI.name
       THEN [uses[i] EXCEPT !.global = TRUE]
       ELSE uses[i]]

RECURSIVE PromoteEach(_, _, _)
\* Lines 179-193: the loop over the collected allocas; it returns the
\* Function and the GlobalVariables created
PromoteEach(f, F, Allocas) ==
  IF Allocas = << >> THEN [F |-> F, GVs |-> << >>]
  ELSE LET AI == Head(Allocas)
       IN IF IsPromoted(AI)
            THEN LET erased == [F EXCEPT
                                  !.uses = replaceAllUsesWith(@, AI),
                                  !.allocas =
                                     SelectSeq(@, LAMBDA a : a # AI)]
                     r == PromoteEach(f, erased, Tail(Allocas))
                 IN [F |-> r.F, GVs |-> << GlobalFor(f, AI) >> \o r.GVs]
            ELSE PromoteEach(f, F, Tail(Allocas))

\* Lines 163-194: the allocas of the Function of the SCC are promoted
PromoteAllocas ==
  /\ lgpPC = "sccs"
  /\ \E SCC \in SCCsLeft :
       /\ Deliverable(SCC)
       /\ ~SkipsSCC(SCC)
       /\ \E front \in SCC :
            /\ front # 0
            /\ LET r == PromoteEach(front, Fns[front], Fns[front].allocas)
               IN /\ Fns' = [Fns EXCEPT ![front] = r.F]
                  /\ NewGlobals' = NewGlobals \o r.GVs
                  /\ lgpChanged' = (lgpChanged \/ r.GVs # << >>)
       /\ SCCsLeft' = SCCsLeft \ {SCC}
  /\ UNCHANGED << EnableRandezvousLGPromote, FnsIn, lgpPC >>
  /\ UNCHANGED otherThanLGP

\* Line 197: return changed
ReturnPromoted ==
  /\ lgpPC = "sccs"
  /\ SCCsLeft = {}
  /\ lgpPC' = "done"
  /\ UNCHANGED << EnableRandezvousLGPromote, Fns, FnsIn, NewGlobals,
                  SCCsLeft, lgpChanged >>
  /\ UNCHANGED otherThanLGP

NextLGP ==
  \/ ReturnNotEnabled
  \/ BeginSCCs
  \/ SkipRecursive
  \/ SkipNullFunction
  \/ PromoteAllocas
  \/ ReturnPromoted

InitLGP ==
  /\ GDLRIdle /\ CDLAIdle /\ ICallIdle
  /\ \E enabled \in BOOLEAN, n \in 1..MaxLGFuncs :
       \E as \in [1..n -> AllocaLists], cs \in [1..n -> SUBSET (1..n)],
          ext \in [1..n -> BOOLEAN] :
         LGPStart(enabled,
                  [f \in 1..n |-> LFunction(f, as[f], cs[f], ext[f])])

SpecLGP == InitLGP /\ [][NextLGP]_vars

(* ---- properties of LGPromote ---- *)

\* Function f is on a cycle of direct calls
IsRecursive(f) == \E g \in FnsIn[f].calls : f \in ReachFrom({g})

\* C10: LGPromote leaves every function of a call-graph SCC with a cycle
\* (self-recursion or mutual recursion) unchanged: none of its locals is
\* removed or replaced and no global is created for it.
C10_RecursiveUntouched ==
  \A f \in DOMAIN Fns :
    IsRecursive(f) =>
      /\ Fns[f] = FnsIn[f]
      /\ \A i \in DOMAIN NewGlobals : NewGlobals[i].name[1] # f

\* C10 witness: a finished run that promoted a local of one function and
\* left the function-pointer local of a self-recursive function, which
\* the iterator did deliver, in place.
C10_Witness ==
  /\ lgpPC = "done" /\ lgpChanged
  /\ \E f \in DOMAIN Fns :
       /\ f \in Fns[f].calls
       /\ f \in ReachFrom({0})
       /\ Fns[f].allocas = << Alloca("fp", PtrTy(TRUE), TRUE, TRUE) >>


\* The scalar subfields of a type and of a Constant, in layout order
RECURSIVE Concat(_)
Concat(ss) == IF ss = << >> THEN << >> ELSE Head(ss) \o Concat(Tail(ss))

RECURSIVE LeafTypes(_)
LeafTypes(Ty) ==
  IF Ty.k = "array"
    THEN Concat([i \in 1..Ty.n |-> LeafTypes(Ty.elems[1])])
  ELSE IF Ty.k = "struct"
    THEN Concat([i \in 1..Ty.n |-> LeafTypes(Ty.elems[i])])
  ELSE << Ty >>

RECURSIVE LeafValues(_)
LeafValues(C) ==
  IF C.elems = << >> THEN << C.v >>
  ELSE Concat([i \in DOMAIN C.elems |-> LeafValues(C.elems[i])])

HasFunctionPointerLeaf(Ty) ==
  \E i \in DOMAIN LeafTypes(Ty) :
    LeafTypes(Ty)[i].k = "pointer" /\ LeafTypes(Ty)[i].fn

GlobalsFor(f, AI) ==
  { j \in DOMAIN NewGlobals : NewGlobals[j].name = << f, AI.name >> }

\* Local AI of Function f was replaced by one global of its type and
\* alignment, and every use of it refers to the global
ReplacedByGlobal(f, AI) ==
  /\ AI \notin Range(Fns[f].allocas)
  /\ Cardinality(GlobalsFor(f, AI)) = 1
  /\ \A j \in GlobalsFor(f, AI) :
       NewGlobals[j].type = AI.type /\ NewGlobals[j].align = AI.align
  /\ \A u \in DOMAIN FnsIn[f].uses :
       FnsIn[f].uses[u].name = AI.name =>
         Fns[f].uses[u] = ValueRef(TRUE, f, AI.name)

\* Local AI of Function f and its uses are as they were
LeftInPlace(f, AI) ==
  /\ AI \in Range(Fns[f].allocas)
  /\ GlobalsFor(f, AI) = {}
  /\ \A u \in DOMAIN FnsIn[f].uses :
       FnsIn[f].uses[u].name = AI.name => Fns[f].uses[u] = FnsIn[f].uses[u]

LGPDone == lgpPC = "done" /\ EnableRandezvousLGPromote

C12_SentinelInFunctionPointersOnly ==
  \A j \in DOMAIN NewGlobals :
    LET types == LeafTypes(NewGlobals[j].type)
        vals == LeafValues(NewGlobals[j].init)
    IN /\ Len(vals) = Len(types)
       /\ \A i \in DOMAIN types :
            vals[i] # 0 <=> (types[i].k = "pointer" /\ types[i].fn)

\* C12: the initializer of every created global is the sentinel 1 in exactly
\* the pointer subfields of its type, whatever they point to, and zero in
\* every other subfield.
C12_SentinelInEveryPointer ==
  \A j \in DOMAIN NewGlobals :
    LET types == LeafTypes(NewGlobals[j].type)
        vals == LeafValues(NewGlobals[j].init)
    IN /\ Len(vals) = Len(types)
       /\ \A i \in DOMAIN types :
            vals[i] = IF types[i].k = "pointer" THEN 1 ELSE 0

\* C12 witness: a global was created for a struct that has an integer, two
\* function pointers and a pointer to data.
C12_Witness ==
  \E j \in DOMAIN NewGlobals :
    /\ Len(LeafTypes(NewGlobals[j].type)) = 4
    /\ \E i \in 1..4 :
         LET T == LeafTypes(NewGlobals[j].type)[i]
         IN T.k = "pointer" /\ ~T.fn

=============================================================================
